---- MODULE Spec2Model ----
(***************************************************************************)
(* Model of the XBee gateway application's command-correlation layer:      *)
(*   xbgw/command/rci.py     the command router (process_command)          *)
(*   xbgw/xbee/utils.py      TxStatusCallbacks, the transmission-id table  *)
(*   xbgw/xbee/manager.py    XBeeEventManager (send_serial)                *)
(*   xbgw/xbee/ddo_manager.py DDOEventManager (set_digital_output)         *)
(*   xbgw/debug/*.py         the echo and delayed-echo listeners           *)
(*                                                                         *)
(* Two execution contexts are modelled.  The invoking (RCI) context runs   *)
(* process_command, and with it every bus listener, since publication is   *)
(* synchronous.  The event-loop context (asyncore.loop) runs handle_read.  *)
(* Each context is cut into steps at its accesses to state the other one   *)
(* can see: the slot table (one lock-protected call per step) and the      *)
(* reply channel (one put or get per step).                                *)
(***************************************************************************)
EXTENDS Integers, Sequences, FiniteSets, TLC

\* ------------------------------------------------------------------ bounds
\* max_id of the managers' TxStatusCallbacks (a constructor parameter, 255
\* by default).
MaxId == 1
\* Number of command elements the router processes in one behaviour.
MaxCmds == 3
\* Largest number of subscribers on the debug "echo" topic.
MaxSubs == 2
\* Largest max_id of the TxStatusCallbacks driven call by call.
MaxSlots == 2
\* Most calls that reach the slot array of the table driven call by call.
MaxCalls == 7

\* --------------------------------------------------------- program constants
BLOCKING_LIMIT == 30

Managers == {"serial", "ddo"}
None == 0

\* ----------------------------------------------------------------- replies
\* rci.py ErrorResponse(errcode, errdb, hint): a "response" element with an
\* "error" child of id errcode and an optional hint.  A reply without error
\* has err = "".
ErrorResponse(errcode, errdb, hint) ==
    [node |-> "response", err |-> errcode, desc |-> errdb[errcode],
     hint |-> hint]

\* A "response" element without an error child.
OkResponse == [node |-> "response", err |-> "", desc |-> "", hint |-> ""]

\* The element published on "command.echo", which the echo listeners put
\* back as their reply.
EchoElement == [node |-> "echo", err |-> "", desc |-> "", hint |-> ""]

\* rci.py errors (167-170)
RciErrors ==
    "command.unknown" :> "Command not handled" @@
    "command.timeout" :> "Timeout or unexpected exit waiting for response"

\* manager.py errors (54-65)
SerialErrors ==
    "address" :> "Invalid address" @@
    "encoding" :> "Unrecognized encoding" @@
    "base64" :> "Unable to decode as base64" @@
    "invalidattr" :> "Attribute value is incorrect" @@
    "missingattr" :> "Missing required command attribute" @@
    "toomanyattrs" :> "Too many attributes were given" @@
    "txfailed" :> "Transmit operation failed" @@
    "txfull" :> "Too many outstanding transmits" @@
    "txstatus" :> "TX Status delivery failure" @@
    "unexpected" :> "Unexpected/unclassified error"

\* ddo_manager.py errors (38-52)
DdoErrors ==
    "address" :> "Invalid address" @@
    "badoutput" :> "Invalid digital output value" @@
    "invalidattr" :> "Attribute value is incorrect" @@
    "missingattr" :> "Missing required command attribute" @@
    "toomanyattrs" :> "Too many attributes were given" @@
    "ddo_error" :> "DDO command error" @@
    "badcmd" :> "Invalid DDO command name" @@
    "badparam" :> "Invalid DDO command value" @@
    "txfailed" :> "Transmit operation failed" @@
    "txfull" :> "Too many outstanding transmits" @@
    "unexpected" :> "Unexpected/unclassified error"

Errors(m) == IF m = "serial" THEN SerialErrors ELSE DdoErrors

\* The three kinds of value a listener can put on a reply channel.
Immediate(r) ==
    [kind |-> "Imm", node |-> r.node, err |-> r.err, desc |-> r.desc,
     hint |-> r.hint]

ResponsePending ==
    [kind |-> "Pending", node |-> "", err |-> "", desc |-> "", hint |-> ""]

DeferredResponse(r) ==
    [kind |-> "Deferred", node |-> r.node, err |-> r.err, desc |-> r.desc,
     hint |-> r.hint]

\* The element appended without line 240: it keeps the tag it came with.
ReplyOfKeepsTag(v) ==
    [node |-> v.node, err |-> v.err, desc |-> v.desc, hint |-> v.hint]

\* response.response, renamed "response" (rci.py 228-240): the element
\* appended to the aggregate
ReplyOf(v) ==
    [node |-> "response", err |-> v.err, desc |-> v.desc, hint |-> v.hint]

\* ------------------------------------------------- TxStatusCallbacks (utils.py)
\* self._callbacks = [None] * (max_id + 1); self._baseindex = 1
EmptyTable(max_id) == [i \in 0..max_id |-> None]

\* cblist = self._callbacks[start:] + self._callbacks[1:start]
CbList(cbs, start, max_id) ==
    [i \in 1..max_id |->
        IF start + i - 1 <= max_id THEN cbs[start + i - 1]
        ELSE cbs[i - (max_id + 1 - start)]]

\* _next_index taking the last empty slot of the rotated list, not the first.
next_indexLast(cbs, base, max_id) ==
    LET start  == base % (max_id + 1)
        cblist == CbList(cbs, start, max_id)
        free   == {i \in 1..max_id : cblist[i] = None}
    IN  IF free = {} THEN 0
        ELSE LET pos   == (CHOOSE i \in free : \A j \in free : i >= j) - 1
                 index == pos + start
             IN  IF index > Len(cblist) THEN index % Len(cblist) ELSE index

\* _next_index without the reduction of an index past the end of the list.
next_indexNoWrap(cbs, base, max_id) ==
    LET start  == base % (max_id + 1)
        cblist == CbList(cbs, start, max_id)
        free   == {i \in 1..max_id : cblist[i] = None}
    IN  IF free = {} THEN 0
        ELSE (CHOOSE i \in free : \A j \in free : i <= j) - 1 + start

\* _next_index: the first empty slot at or after the base index, wrapping
\* around and skipping 0; 0 when there is none.
next_index(cbs, base, max_id) ==
    LET start  == base % (max_id + 1)
        cblist == CbList(cbs, start, max_id)
        free   == {i \in 1..max_id : cblist[i] = None}
    IN  IF free = {} THEN 0
        ELSE LET pos   == (CHOOSE i \in free : \A j \in free : i <= j) - 1
                 index == pos + start
             IN  IF index > Len(cblist) THEN index % Len(cblist) ELSE index

\* add_callback that, finding no empty slot, reuses the slot at the base
\* index instead of raising CallbacksFull.
add_callbackOverwrite(cbs, base, max_id, listener) ==
    LET free == next_index(cbs, base, max_id)
        txid == IF free = 0 THEN base ELSE free
    IN  [txid |-> txid,
         cbs  |-> [cbs EXCEPT ![txid] = listener],
         base |-> IF base + 1 > max_id THEN 1 ELSE base + 1]

\* add_callback that sets the base index to the slot after the id it returns.
add_callbackFollowsId(cbs, base, max_id, listener) ==
    LET txid == next_index(cbs, base, max_id)
    IN  IF txid = 0
        THEN [txid |-> 0, cbs |-> cbs, base |-> base]
        ELSE [txid |-> txid,
              cbs  |-> [cbs EXCEPT ![txid] = listener],
              base |-> IF txid + 1 > max_id THEN 1 ELSE txid + 1]

\* add_callback that moves the base index before it looks for a slot, and so
\* also when it raises.
add_callbackAdvancesFirst(cbs, base, max_id, listener) ==
    LET txid == next_index(cbs, base, max_id)
        next == IF base + 1 > max_id THEN 1 ELSE base + 1
    IN  IF txid = 0
        THEN [txid |-> 0, cbs |-> cbs, base |-> next]
        ELSE [txid |-> txid,
              cbs  |-> [cbs EXCEPT ![txid] = listener],
              base |-> next]

\* add_callback that increments the base index without wrapping it.
add_callbackNoReset(cbs, base, max_id, listener) ==
    LET txid == next_index(cbs, base, max_id)
    IN  IF txid = 0
        THEN [txid |-> 0, cbs |-> cbs, base |-> base]
        ELSE [txid |-> txid,
              cbs  |-> [cbs EXCEPT ![txid] = listener],
              base |-> base + 1]

\* add_callback: [txid, cbs, base]; txid = 0 stands for raising CallbacksFull.
add_callback(cbs, base, max_id, listener) ==
    LET txid == next_index(cbs, base, max_id)
    IN  IF txid = 0
        THEN [txid |-> 0, cbs |-> cbs, base |-> base]
        ELSE [txid |-> txid,
              cbs  |-> [cbs EXCEPT ![txid] = listener],
              base |-> IF base + 1 > max_id THEN 1 ELSE base + 1]

\* The range check without its lower bound.
ValidTxidUpperOnly(txid, max_id) == ~(txid > max_id)

\* The range check of remove_callback and get_callback (IndexError).
ValidTxid(txid, max_id) == ~(txid <= 0 \/ txid > max_id)

\* remove_callback that leaves the slot as it is.
remove_callbackKeeps(cbs, txid) == cbs

\* remove_callback on a valid id.
remove_callback(cbs, txid) == [cbs EXCEPT ![txid] = None]

\* remove_callback as called: the range check, then the slot is cleared.
TxRemove(cbs, txid, max_id) ==
    IF ValidTxid(txid, max_id)
    THEN [exc |-> "", cbs |-> remove_callback(cbs, txid)]
    ELSE [exc |-> "IndexError", cbs |-> cbs]

\* get_callback on a valid id.
get_callback(cbs, txid) == cbs[txid]

\* get_callback as called: the range check, then the slot is read.
TxGet(cbs, txid, max_id) ==
    IF ValidTxid(txid, max_id)
    THEN [exc |-> "", value |-> get_callback(cbs, txid)]
    ELSE [exc |-> "IndexError", value |-> None]

Occupied(cbs) == {i \in DOMAIN cbs : cbs[i] # None}

\* ------------------------------------------------------- command elements
\* A command element: its tag, the attributes the listeners read and its
\* text.  "none" stands for an absent attribute or text (Python None).
Tags == {"send_serial", "set_digital_output", "echo", "test"}

Addrs == {"none", "zz", "0011223344556677", "00112233445566778", "broadcast"}

Encodings == {"none", "base64", "utf-8", "hex"}

SerialBodies == {"none", "MTIzNA==", "abc"}

Indexes == {"none", "", "5", "9", "13", "x"}

Names == {"none", "DIO5", "D9", "DIO9", "ON", "SLEEP", "zzz"}

DigitalBodies == {"high", "off", "maybe"}

Elem(tag, addr, encoding, index, name, body) ==
    [tag |-> tag, addr |-> addr, encoding |-> encoding,
     index |-> index, name |-> name, body |-> body]

SerialElements ==
    {Elem("send_serial", a, e, "none", "none", b) :
        a \in Addrs, e \in Encodings, b \in SerialBodies}

DigitalElements ==
    {Elem("set_digital_output", a[1], "none", a[2], a[3], a[4]) :
        a \in Addrs \X Indexes \X Names \X DigitalBodies}

\* No element.
NoElement == Elem("none", "none", "none", "none", "none", "none")

OtherElements ==
    {Elem(t, "none", "none", "none", "none", "none") : t \in {"echo", "test"}}

\* Python truth value of an attribute string ("not addr").
Truthy(s) == s # "none" /\ s # ""

\* utils.normalize_ieee_address on a string: the number of hexadecimal digits
\* in it ("broadcast" holds b, a, d, c, a).
HexDigitCount(address) ==
    CASE address = "zz" -> 0
      [] address = "0011223344556677" -> 16
      [] address = "00112233445566778" -> 17
      [] address = "broadcast" -> 5
      [] address = "[00:00:00:00:00:00:FF:FF]!" -> 16
      [] OTHER -> 0

\* "" when the address normalizes, else the ValueError message.
normalize_error(address) ==
    LET count == HexDigitCount(address)
    IN  IF 0 < count /\ count <= 16 THEN ""
        ELSE IF count > 16 THEN "Address is too long (17 chars)"
        ELSE "Address is too short (0 chars)"

\* base64.b64decode raises TypeError on None and on incorrect padding.
b64decode_ok(msg) == msg = "MTIzNA=="

\* The attribute checks of send_serial_listener (manager.py 258-302), in
\* order.  The result is the error reply, OkResponse when the command goes on
\* to allocate an id, or err = "raise" when an exception leaves the listener
\* (msg.encode on a None text).
send_serial_check(element) ==
    LET addr     == IF element.addr = "broadcast"
                    THEN "[00:00:00:00:00:00:FF:FF]!" ELSE element.addr
        encoding == IF element.encoding = "none" THEN "base64"
                    ELSE element.encoding
    IN  IF ~Truthy(element.addr)
        THEN ErrorResponse("missingattr", SerialErrors,
                 "No destination XBee address (attribute 'addr') given.")
        ELSE IF normalize_error(addr) # ""
        THEN ErrorResponse("address", SerialErrors, normalize_error(addr))
        ELSE IF encoding = "base64"
        THEN IF b64decode_ok(element.body) THEN OkResponse
             ELSE ErrorResponse("base64", SerialErrors, "")
        ELSE IF encoding = "utf-8"
        THEN IF element.body = "none" THEN [node |-> "", err |-> "raise", desc |-> "", hint |-> ""]
             ELSE OkResponse
        ELSE ErrorResponse("encoding", SerialErrors, encoding)

\* "%x" % n: the hexadecimal digits of n, lower case.
HexDigits == <<"0", "1", "2", "3", "4", "5", "6", "7",
               "8", "9", "a", "b", "c", "d", "e", "f">>

RECURSIVE Hex(_)
Hex(n) == IF n < 16 THEN HexDigits[n + 1]
          ELSE Hex(n \div 16) \o HexDigits[(n % 16) + 1]

\* "%02x" % n: padded with a zero to two digits.
Hex02(n) == IF n < 16 THEN "0" \o Hex(n) ELSE Hex(n)

\* "%s" % n of a non-negative integer: its decimal digits.
RECURSIVE Dec(_)
Dec(n) == IF n < 10 THEN HexDigits[n + 1]
          ELSE Dec(n \div 10) \o HexDigits[(n % 10) + 1]

\* int(index), -1 standing for ValueError (ddo_manager.py 258-263).
IndexInt(index) ==
    CASE index = "5" -> 5
      [] index = "9" -> 9
      [] index = "13" -> 13
      [] OTHER -> 0 - 1

\* BAD_NAME_MAP and PIN_MAP restricted to Names (ddo_manager.py 54-78).
InBadNameMap(name) == name \in {"ON", "SLEEP"}

BadNameMap(name) == 9

InPinMap(name) == name \in {"DIO5", "D9", "DIO9"}

PinMap(name) == IF name = "DIO5" THEN 5 ELSE 9

\* ' or '.join(INVERSE_PIN_MAP[pin]) (ddo_manager.py 61-74, 281): "DIOx",
\* and "Dx" for the pins below 10.
Suggestions(pin) ==
    "DIO" \o Dec(pin) \o (IF pin < 10 THEN " or D" \o Dec(pin) ELSE "")

\* str.strip() and str.lower() on the command bodies used here.
Strip(s) == IF s = " high " THEN "high" ELSE s

Lower(s) ==
    CASE s = "LOW" -> "low"
      [] s = "High" -> "high"
      [] s = "True" -> "true"
      [] OTHER -> s

\* distutils.util.strtobool (called at ddo_manager.py 95): 1 for a true
\* literal, 0 for a false one, -1 standing for ValueError.
strtobool(val) ==
    LET v == Lower(val)
    IN  IF v \in {"y", "yes", "t", "true", "on", "1"} THEN 1
        ELSE IF v \in {"n", "no", "f", "false", "off", "0"} THEN 0
        ELSE 0 - 1

\* _parse_digital_value comparing the body as written, without lower().
parse_digital_valueAsWritten(value) ==
    IF value = "low" THEN 4
    ELSE IF value = "high" THEN 5
    ELSE IF value \in {"y", "yes", "t", "true", "on", "1"} THEN 5
    ELSE IF value \in {"n", "no", "f", "false", "off", "0"} THEN 4
    ELSE 0

\* _parse_digital_value (ddo_manager.py 81-98): 4 for low, 5 for high, 0
\* for an invalid value.
parse_digital_value(value) ==
    LET value_l == Lower(value)
    IN  IF value_l = "low" THEN 4
        ELSE IF value_l = "high" THEN 5
        ELSE IF strtobool(value) >= 0 THEN strtobool(value) + 4
        ELSE 0

\* struct.pack('!I', n): four bytes, the most significant first.
Pack(n) ==
    <<(n \div 16777216) % 256, (n \div 65536) % 256, (n \div 256) % 256,
      n % 256>>

\* digital_out_check without the test for pin 9 (lines 298-303).
digital_out_checkAnyPin(element) ==
    LET index == element.index
        name  == element.name
        value == IF element.body = "none" THEN "" ELSE Strip(element.body)
        pin   == IF Truthy(index) THEN IndexInt(index) ELSE PinMap(name)
    IN  IF ~Truthy(element.addr)
        THEN ErrorResponse("missingattr", DdoErrors,
                 "No destination XBee address (attribute 'addr') given.")
        ELSE IF normalize_error(element.addr) # ""
        THEN ErrorResponse("address", DdoErrors, normalize_error(element.addr))
        ELSE IF ~Truthy(index) /\ ~Truthy(name)
        THEN ErrorResponse("missingattr", DdoErrors,
                 "No digital output pin number (attribute 'index') or "
                 \o "name alias (attribute 'name') given")
        ELSE IF index # "none" /\ name # "none"
        THEN ErrorResponse("toomanyattrs", DdoErrors,
                 "Must specify only an index or a name, not both.")
        ELSE IF Truthy(index) /\ (pin < 0 \/ pin > 12)
        THEN ErrorResponse("invalidattr", DdoErrors, "Pin number ('index') must be an integer between 0 and 12")
        ELSE IF ~Truthy(index) /\ InBadNameMap(name)
        THEN ErrorResponse("invalidattr", DdoErrors,
                 "Bad digital output name; use "
                 \o Suggestions(BadNameMap(name)) \o " instead.")
        ELSE IF ~Truthy(index) /\ ~InPinMap(name)
        THEN ErrorResponse("invalidattr", DdoErrors,
                 "Unrecognized digital output name: '" \o name \o "'")
        ELSE IF parse_digital_value(value) = 0
        THEN ErrorResponse("badoutput", DdoErrors, value)
        ELSE OkResponse

\* The attribute checks of digital_out_listener (ddo_manager.py 215-312).
digital_out_check(element) ==
    LET index == element.index
        name  == element.name
        value == IF element.body = "none" THEN "" ELSE Strip(element.body)
        pin   == IF Truthy(index) THEN IndexInt(index) ELSE PinMap(name)
    IN  IF ~Truthy(element.addr)
        THEN ErrorResponse("missingattr", DdoErrors,
                 "No destination XBee address (attribute 'addr') given.")
        ELSE IF normalize_error(element.addr) # ""
        THEN ErrorResponse("address", DdoErrors, normalize_error(element.addr))
        ELSE IF ~Truthy(index) /\ ~Truthy(name)
        THEN ErrorResponse("missingattr", DdoErrors,
                 "No digital output pin number (attribute 'index') or "
                 \o "name alias (attribute 'name') given")
        ELSE IF index # "none" /\ name # "none"
        THEN ErrorResponse("toomanyattrs", DdoErrors,
                 "Must specify only an index or a name, not both.")
        ELSE IF Truthy(index) /\ (pin < 0 \/ pin > 12)
        THEN ErrorResponse("invalidattr", DdoErrors, "Pin number ('index') must be an integer between 0 and 12")
        ELSE IF ~Truthy(index) /\ InBadNameMap(name)
        THEN ErrorResponse("invalidattr", DdoErrors,
                 "Bad digital output name; use "
                 \o Suggestions(BadNameMap(name)) \o " instead.")
        ELSE IF ~Truthy(index) /\ ~InPinMap(name)
        THEN ErrorResponse("invalidattr", DdoErrors,
                 "Unrecognized digital output name: '" \o name \o "'")
        ELSE IF pin = 9
        THEN ErrorResponse("invalidattr", DdoErrors, "DIO9 cannot be configured for digital")
        ELSE IF parse_digital_value(value) = 0
        THEN ErrorResponse("badoutput", DdoErrors, value)
        ELSE OkResponse

\* What the checks of each listener can come to, over all command elements.
SerialResults == {send_serial_check(element) : element \in SerialElements}

DigitalResults == {digital_out_check(element) : element \in DigitalElements}

CheckResults(m) == IF m = "serial" THEN SerialResults ELSE DigitalResults

\* ------------------------------------------------------------ attempt_send
\* What poller.poll(0) returns: nothing, events that are not (this socket,
\* POLLOUT), or (this socket, POLLOUT).
PollResults == {"empty", "other", "pollout"}

\* What socket.sendto does: returns, raises socket.error, raises another
\* exception.
SendtoResults == {"ok", "socket.error", "Exception"}

\* attempt_send (manager.py 370-383, ddo_manager.py 361-376): whether sendto
\* was called, and the exception raised ("" for a normal return) with its
\* message.
attempt_send(poll, sendto) ==
    IF poll = "empty"
    THEN [called |-> FALSE, exc |-> "SocketUnavailable",
          msg |-> "No poll events returned"]
    ELSE IF poll = "other"
    THEN [called |-> FALSE, exc |-> "SocketUnavailable",
          msg |-> "Socket not available for write"]
    ELSE [called |-> TRUE,
          exc |-> IF sendto = "ok" THEN "" ELSE sendto,
          msg |-> IF sendto = "ok" THEN "" ELSE "strerror"]

\* ------------------------------------------------------- status callbacks
\* Delivery statuses a serial status frame carries: success or a failure
\* code ("Address not found").
SerialStatuses == {0, 36}

\* Statuses a DDO status frame carries: XBS_STAT_OK or XBS_STAT_TXFAIL.
DdoStatuses == {0, 4}

Statuses(m) == IF m = "serial" THEN SerialStatuses ELSE DdoStatuses

\* manager.py TX_STATUSES (35-52).
SerialTxStatuses ==
    (0 :> "Success") @@ (1 :> "MAC ACK Failure") @@ (2 :> "CCA Failure")
    @@ (21 :> "Invalid destination endpoint")
    @@ (33 :> "Network ACK Failure") @@ (34 :> "Not joined to network")
    @@ (35 :> "Self addressed") @@ (36 :> "Address not found")
    @@ (37 :> "Route not found")
    @@ (38 :> "Broadcast source failed to hear a neighbor relay the message")
    @@ (43 :> "Invalid binding table index")
    @@ (44 :> "Resource error; lack of free buffers, timers, etc")
    @@ (45 :> "Attempted broadcast with APS transmission")
    @@ (46 :> "Attempted unicast with APS transmission, but EE=0")
    @@ (50 :> "Resource error; lack of free buffers, times, etc")
    @@ (116 :> "Data payload too large")

\* ddo_manager.py TX_STATUSES (30-36), keyed by XBS_STAT_OK, XBS_STAT_ERROR,
\* XBS_STAT_BADCMD, XBS_STAT_BADPARAM and XBS_STAT_TXFAIL.
DdoTxStatuses ==
    (0 :> "Success") @@ (1 :> "Error") @@ (2 :> "Invalid DDO command name")
    @@ (3 :> "Invalid DDO command value") @@ (4 :> "Transmit failure")

\* status_callback that reports every code the table does not know as
\* "unexpected", the way the DDO manager does.
serial_status_callbackUnexpected(delivery_status) ==
    IF delivery_status \notin DOMAIN SerialTxStatuses
    THEN ErrorResponse("unexpected", SerialErrors,
             "Unexpected status: " \o Dec(delivery_status))
    ELSE IF delivery_status # 0
    THEN ErrorResponse("txstatus", SerialErrors,
             "0x" \o Hex02(delivery_status) \o ": "
                  \o SerialTxStatuses[delivery_status])
    ELSE OkResponse

\* manager.py status_callback (388-406): the reply wrapped in the Deferred.
serial_status_callback(delivery_status) ==
    IF delivery_status # 0
    THEN ErrorResponse("txstatus", SerialErrors,
             "0x" \o Hex02(delivery_status) \o ": " \o
             (IF delivery_status \in DOMAIN SerialTxStatuses
              THEN SerialTxStatuses[delivery_status]
              ELSE "Unknown"))
    ELSE OkResponse

\* status_callback without the table lookup: a code that is none of the
\* five falls through to the empty success reply.
ddo_status_callbackNoTable(status) ==
    IF status = 4 THEN ErrorResponse("txfailed", DdoErrors, "address")
    ELSE IF status = 2 THEN ErrorResponse("badcmd", DdoErrors, "sent_cmd")
    ELSE IF status = 3 THEN ErrorResponse("badparam", DdoErrors, "")
    ELSE IF status = 1 THEN ErrorResponse("ddo_error", DdoErrors, "")
    ELSE OkResponse

\* ddo_manager.py status_callback (380-408).
ddo_status_callback(status) ==
    IF status \notin DOMAIN DdoTxStatuses
    THEN ErrorResponse("unexpected", DdoErrors,
             "Unexpected status: " \o Dec(status))
    ELSE IF status = 0 THEN OkResponse
    ELSE IF status = 4 THEN ErrorResponse("txfailed", DdoErrors, "address")
    ELSE IF status = 2 THEN ErrorResponse("badcmd", DdoErrors, "sent_cmd")
    ELSE IF status = 3 THEN ErrorResponse("badparam", DdoErrors, "")
    ELSE ErrorResponse("ddo_error", DdoErrors, "")

status_callback(m, status) ==
    IF m = "serial" THEN serial_status_callback(status)
    ELSE ddo_status_callback(status)

\* ------------------------------------------------------------------ state
VARIABLES
    topics,     \* pubsub: topic name -> the listeners subscribed, in order
    ncmd,       \* command elements started so far; the current one is ncmd
    tag,        \* command_element.tag of the current command
    rpc,        \* where the invoking context stands
    lidx,       \* sendMessage: index of the next listener to call
    lm,         \* the manager whose listener is running
    ltxid,      \* the listener's txid
    lmsg,       \* the listener's errmsg after a failed attempt_send
    chan,       \* command -> the content of its PutOnlyQueue's _queue
    deferred,   \* process_command's counter of outstanding deferrals
    resp,       \* resp_xml: the children appended so far
    waited,     \* time units the current get() has been blocked
    timedout,   \* the loop was left through Queue.Empty
    callbacks,  \* manager -> tx_callbacks._callbacks (None or the command
                \*   whose response queue the stored lambda closes over)
    baseindex,  \* manager -> tx_callbacks._baseindex
    sentIds,    \* manager -> ids handed to a sendto that returned
    threads,    \* command -> echo_later threads that have not put yet
    epc,        \* where the event-loop context stands
    em,         \* the manager whose handle_tx_status holds a callback
    eid,        \* tx_id of the frame it received
    estatus,    \* status code of the frame
    ecb,        \* handle_tx_status's local callback
    arrived,    \* history: command -> how many values of each kind were
                \*   put on its queue
    occBefore,  \* history: the slots of lm's table that were occupied when
                \*   the running listener accepted its command
    loopFreed,  \* history: the slots of lm's table the event loop has
                \*   released since then
    uut_max_id,     \* a TxStatusCallbacks driven call by call: max_id
    uut_callbacks,  \*   its _callbacks
    uut_baseindex,  \*   its _baseindex
    calls,      \* history: the calls that changed it, in order
    ret,        \* history: the last call made on it and its outcome
    maplock,    \*   its _maplock: "free" or the thread holding it
    tpc,        \* thread -> where it stands in a call on that table
    targ,       \* thread -> the txid or listener argument of its call
    tfound,     \* thread -> add_callback's local txid
    root,       \* _handle_rci: the tags of the parsed body's elements
    return_list,    \* _handle_rci: the aggregates serialised so far
    returned,   \* the text _handle_rci returned
    registered, \* manager -> its socket is open and in the asyncore map
    logged,     \* manager -> the exceptions its handle_error has logged
    dm,         \* a listener called directly: the manager it belongs to
    delement,   \*   the command element it was given
    dpc,        \*   where the call stands
    dfds,       \*   attempt_send: what poller.poll(0) returned
    dfdi,       \*   attempt_send: the pair the for loop is at
    dsendtos,   \*   the payloads passed to socket.sendto, in order
    dputs,      \*   the values put on the response queue, in order
    dtxid,      \*   the id add_callback returned
    dexc,       \*   the message of the exception attempt_send raised
    settings,   \* XBeeEventManager: its three settings
    last_report,    \* its _last_report: filter key -> value or None
    published,  \* history: filter key -> the messages sent to pubsub for
                \*   that pin, in order
    samples,    \* history: filter key -> the samples processed for that
                \*   pin, in order, with whether each was sent
    data,       \* handle_read: the bytes recvfrom returned for an I/O frame
    parsed,     \* what io_sample.parse_is made of them
    work,       \* DeviceCloudReporter: its _work deque
    work_lock,  \* who holds _work_lock
    work_event, \* whether _work_event is set
    lpc,        \* where a call of __my_listener stands
    nput,       \* the items published to the reporter so far
    upc,        \* where the upload thread stands
    upload_body,    \* _build_body: the datapoints taken for the body
    loop_count, \* _upload: its loop_count
    answers     \* history: the answers of send_to_idigi for this body

routerVars == <<ncmd, tag, rpc, lidx, deferred, resp, waited, timedout>>

listenerVars == <<lm, ltxid, lmsg>>

tableVars == <<callbacks, baseindex>>

loopVars == <<epc, em, eid, estatus, ecb>>

histVars == <<occBefore, loopFreed>>

uutVars == <<uut_max_id, uut_callbacks, uut_baseindex, calls, ret>>

lockVars == <<maplock, tpc, targ, tfound>>

rciVars == <<root, return_list, returned>>

callVars == <<dm, delement, dpc, dfds, dfdi, dsendtos, dputs, dtxid, dexc>>

ioVars == <<settings, last_report, published, samples>>

parseVars == <<data, parsed>>

reportVars == <<work, work_lock, work_event, lpc, nput, upc, upload_body,
               loop_count, answers>>

\* The router, the two managers' listeners, tables and event loop.
mainVars == <<routerVars, listenerVars, chan, arrived, tableVars, sentIds,
              threads, loopVars, histVars>>

sockVars == <<registered, logged>>

sideVars == <<topics, uutVars, lockVars, rciVars, callVars, ioVars, parseVars, reportVars>>

\* What the gateway's own steps never change.
fixedVars == <<sideVars, sockVars>>

\* What the calls on the table under test never change.
gatewayVars == <<topics, mainVars, rciVars, sockVars, callVars, ioVars, parseVars, reportVars>>

vars == <<topics, mainVars, uutVars, lockVars, rciVars, sockVars, callVars,
          ioVars, parseVars, reportVars>>

Cmds == 1..MaxCmds

\* process_command line 196: command = "command." + command_element.tag
Topic(t) == "command." \o t

TopicNames == {Topic(t) : t \in Tags}

command == Topic(tag)

\* The kinds of value put on a queue; in the history, "Late" counts the
\* values put after process_command returned.
Kinds == {"Imm", "Pending", "Deferred", "Late"}

\* process_command has returned for command c: nothing reads its queue any
\* more.
Abandoned(c) == c < ncmd \/ rpc \in {"returned", "done"}

\* Put on one queue shared by all commands: a value for a command that has
\* returned lands on the queue of the command being processed.
PutShared(c, v) ==
    IF Abandoned(c)
    THEN /\ arrived' = [arrived EXCEPT ![c]["Late"] = @ + 1]
         /\ chan' = [chan EXCEPT ![ncmd] = Append(@, v)]
    ELSE /\ chan' = [chan EXCEPT ![c] = Append(@, v)]
         /\ arrived' = [arrived EXCEPT ![c][v.kind] = @ + 1]

\* PutOnlyQueue.put.  The content of a queue is kept while process_command
\* can still get from it.
Put(c, v) ==
    IF Abandoned(c)
    THEN /\ arrived' = [arrived EXCEPT ![c]["Late"] = @ + 1]
         /\ UNCHANGED chan
    ELSE /\ chan' = [chan EXCEPT ![c] = Append(@, v)]
         /\ arrived' = [arrived EXCEPT ![c][v.kind] = @ + 1]

\* responses._queue.empty()
QueueEmpty == chan[ncmd] = <<>>

\* The devices and pins I/O samples come from, and the keys of _last_report:
\* "{} - {}".format(addr[0], key) (manager.py 174, 191).
IoAddrs == {"00:13:a2:00:40:0a:07:8d"}

AnalogKeys == {"AD0", "AD1"}

DigitalKeys == {"DIO0"}

FilterKey(addr, key) == addr \o " - " \o key

FilterKeys == {FilterKey(a, k) : a \in IoAddrs, k \in AnalogKeys \cup DigitalKeys}

\* self._last_report.get(filter_key) of a key never stored: None.
NoValue == 0 - 1

\* No listener has been called directly.
NoDirectCall ==
    /\ dm = "serial" /\ delement = NoElement /\ dpc = "idle"
    /\ dfds = <<>> /\ dfdi = 0 /\ dsendtos = <<>> /\ dputs = <<>>
    /\ dtxid = 0 /\ dexc = ""

\* parse_is has not been called.
NotParsed == [exc |-> "none", retdir |-> <<>>]

\* No I/O frame has been received.
NoFrame == data = <<>> /\ parsed = NotParsed

\* DeviceCloudReporter.__init__ (device_cloud.py 126-144): an empty deque,
\* the event clear, the lock free, the upload thread at the top of its loop.
NoReport ==
    /\ work = <<>> /\ work_lock = "free" /\ work_event = FALSE
    /\ lpc = "idle" /\ nput = 0
    /\ upc = "top" /\ upload_body = <<>> /\ loop_count = 0
    /\ answers = <<>>

\* The settings_list defaults (manager.py 98-108).
DefaultSettings ==
    [filter_analog_duplicates |-> TRUE, minimum_analog_change |-> 1,
     filter_digital_duplicates |-> TRUE]

InitCommon ==
    /\ ncmd = 0 /\ tag = "test" /\ rpc = "idle" /\ lidx = 1
    /\ lm = "serial" /\ ltxid = 0 /\ lmsg = ""
    /\ chan = [c \in Cmds |-> <<>>]
    /\ arrived = [c \in Cmds |-> [k \in Kinds |-> 0]]
    /\ deferred = 0 /\ resp = <<>> /\ waited = 0
    /\ timedout = FALSE
    /\ callbacks = [m \in Managers |-> EmptyTable(MaxId)]
    /\ baseindex = [m \in Managers |-> 1]
    /\ sentIds = [m \in Managers |-> {}]
    /\ threads = [c \in Cmds |-> 0]
    /\ epc = "poll" /\ em = "serial" /\ eid = 0 /\ estatus = 0 /\ ecb = None
    /\ occBefore = {} /\ loopFreed = {}
    /\ return_list = <<>> /\ returned = ""
    /\ registered = [m \in Managers |-> TRUE]
    /\ logged = [m \in Managers |-> 0]
    /\ NoDirectCall
    /\ last_report = [k \in FilterKeys |-> NoValue]
    /\ published = [k \in FilterKeys |-> <<>>]
    /\ samples = [k \in FilterKeys |-> <<>>]

\* xbgw_main.main: XBeeEventManager, DDOEventManager and EchoCommand
\* subscribe; nothing subscribes to any other topic.
MainTopics ==
    [n \in TopicNames |->
        CASE n = "command.send_serial" -> <<"serial">>
          [] n = "command.set_digital_output" -> <<"ddo">>
          [] n = "command.echo" -> <<"echo">>
          [] OTHER -> <<>>]

\* process_command is called with one element after another, no batch.
NoBatch == root = <<>>

\* The two contexts that call the table's methods: the thread that runs the
\* listeners and the event loop.
Threads == {"rci", "loop"}

\* TxStatusCallbacks.__init__ (utils.py 110-114)
NoCall == [op |-> "none", arg |-> 0, exc |-> "", value |-> 0]

NewTable(max_id) ==
    /\ uut_max_id = max_id
    /\ uut_callbacks = EmptyTable(max_id)
    /\ uut_baseindex = 1
    /\ calls = <<>>
    /\ ret = NoCall
    /\ maplock = "free"
    /\ tpc = [t \in Threads |-> "idle"]
    /\ targ = [t \in Threads |-> 0]
    /\ tfound = [t \in Threads |-> 0]

Init ==
    /\ topics = MainTopics /\ InitCommon /\ NewTable(MaxId) /\ NoBatch
    /\ settings = DefaultSettings
    /\ NoFrame
    /\ NoReport

\* A completion stored in a slot, or held by handle_tx_status, closes over
\* command c's queue.
Referenced(c) ==
    \/ \E m \in Managers : \E k \in DOMAIN callbacks[m] : callbacks[m][k] = c
    \/ ecb = c

\* ------------------------------------------------------ the invoking context
\* process_command lines 193-198: a fresh PutOnlyQueue, then sendMessage.
\* The queues of the commands before it that no completion and no thread
\* refers to are unreachable: their history is dropped.
StartCommand(t) ==
    /\ rpc \in {"idle", "returned"}
    /\ ncmd < MaxCmds
    /\ ncmd' = ncmd + 1
    /\ tag' = t
    /\ rpc' = "dispatch"
    /\ lidx' = 1
    /\ deferred' = 0 /\ resp' = <<>> /\ waited' = 0
    /\ timedout' = FALSE
    /\ ltxid' = 0 /\ lmsg' = ""
    /\ arrived' = [c \in Cmds |->
                      IF Referenced(c) \/ threads[c] > 0 THEN arrived[c]
                      ELSE [k \in Kinds |-> 0]]
    /\ UNCHANGED <<fixedVars, lm, chan, tableVars, sentIds, threads, loopVars,
                   histVars>>

Dispatching(kind) ==
    /\ rpc = "dispatch"
    /\ lidx <= Len(topics[command])
    /\ topics[command][lidx] = kind

\* A manager's listener has accepted its command and has not returned.
InListener == rpc \in {"alloc", "send", "release", "failreply", "pending"}

\* The listener returns to sendMessage.
ListenerReturns ==
    /\ rpc' = "dispatch" /\ lidx' = lidx + 1
    /\ occBefore' = {} /\ loopFreed' = {}

\* debug/echo.py do_echo
EchoListener ==
    /\ Dispatching("echo")
    /\ Put(ncmd, Immediate(EchoElement))
    /\ ListenerReturns
    /\ UNCHANGED <<fixedVars, ncmd, tag, deferred, resp, waited, timedout,
                   listenerVars, tableVars, sentIds, threads, loopVars>>

\* debug/delayed_echo.py do_echo, line 20: start the echo_later thread.
DelayedEchoStart ==
    /\ Dispatching("delayed")
    /\ threads' = [threads EXCEPT ![ncmd] = @ + 1]
    /\ rpc' = "dstart"
    /\ UNCHANGED <<fixedVars, ncmd, tag, lidx, deferred, resp, waited,
                   timedout, listenerVars, chan, arrived, tableVars, sentIds, loopVars, histVars>>

\* debug/delayed_echo.py do_echo, line 21: put ResponsePending.
DelayedEchoPending ==
    /\ rpc = "dstart"
    /\ Put(ncmd, ResponsePending)
    /\ ListenerReturns
    /\ UNCHANGED <<fixedVars, ncmd, tag, deferred, resp, waited, timedout,
                   listenerVars, tableVars, sentIds, threads, loopVars>>

\* debug/delayed_echo.py echo_later, in its own thread: after its sleep it
\* puts the DeferredResponse on the queue it was started with.
EchoLater(c) ==
    /\ threads[c] > 0
    /\ threads' = [threads EXCEPT ![c] = @ - 1]
    /\ Put(c, DeferredResponse(EchoElement))
    /\ UNCHANGED <<fixedVars, routerVars, listenerVars, tableVars, sentIds,
                   loopVars, histVars>>

\* ListenerChecks with the id allocated before the attributes are checked
\* and left in the table when the command is rejected.
ListenerChecksAllocFirst(m) ==
    /\ Dispatching(m)
    /\ lm' = m
    /\ \E r \in CheckResults(m) :
          LET a == add_callback(callbacks[m], baseindex[m], MaxId, ncmd)
          IN  IF r.err = ""
              THEN /\ rpc' = "alloc"
                   /\ occBefore' = Occupied(callbacks[m])
                   /\ loopFreed' = {}
                   /\ UNCHANGED <<lidx, chan, arrived, tableVars>>
              ELSE /\ ListenerReturns
                   /\ callbacks' = [callbacks EXCEPT ![m] = a.cbs]
                   /\ baseindex' = [baseindex EXCEPT ![m] = a.base]
                   /\ IF r.err = "raise" THEN UNCHANGED <<chan, arrived>>
                      ELSE Put(ncmd, Immediate(r))
    /\ UNCHANGED <<fixedVars, ncmd, tag, deferred, resp, waited, timedout,
                   ltxid, lmsg, sentIds, threads, loopVars>>

\* send_serial_listener lines 258-302 / digital_out_listener lines 215-312:
\* the attribute checks.  A rejected command gets its error reply at once; an
\* accepted one goes on to add_callback.
ListenerChecks(m) ==
    /\ Dispatching(m)
    /\ lm' = m
    /\ \E r \in CheckResults(m) :
          IF r.err = ""
          THEN /\ rpc' = "alloc"
               /\ occBefore' = Occupied(callbacks[m])
               /\ loopFreed' = {}
               /\ UNCHANGED <<lidx, chan, arrived>>
          ELSE /\ ListenerReturns
               /\ IF r.err = "raise" THEN UNCHANGED <<chan, arrived>>
                  ELSE Put(ncmd, Immediate(r))
    /\ UNCHANGED <<fixedVars, ncmd, tag, deferred, resp, waited, timedout,
                   ltxid, lmsg, tableVars, sentIds, threads, loopVars>>

\* send_serial_listener lines 304-312 / digital_out_listener lines 315-323:
\* add_callback, or the txfull reply on CallbacksFull.
ListenerAlloc ==
    /\ rpc = "alloc"
    /\ LET a == add_callback(callbacks[lm], baseindex[lm], MaxId, ncmd)
       IN  IF a.txid = 0
           THEN /\ Put(ncmd, Immediate(ErrorResponse("txfull", Errors(lm), "")))
                /\ ListenerReturns
                /\ UNCHANGED <<ltxid, tableVars>>
           ELSE /\ callbacks' = [callbacks EXCEPT ![lm] = a.cbs]
                /\ baseindex' = [baseindex EXCEPT ![lm] = a.base]
                /\ ltxid' = a.txid
                /\ rpc' = "send"
                /\ UNCHANGED <<lidx, chan, arrived, histVars>>
    /\ UNCHANGED <<fixedVars, ncmd, tag, deferred, resp, waited, timedout,
                   lm, lmsg, sentIds, threads, loopVars>>

\* send_serial_listener lines 316-319 / digital_out_listener lines 329-332:
\* attempt_send returns or raises.
ListenerSend(poll, sendto) ==
    /\ rpc = "send"
    /\ LET r == attempt_send(poll, sendto)
       IN  IF r.exc = ""
           THEN /\ sentIds' = [sentIds EXCEPT ![lm] = @ \cup {ltxid}]
                /\ rpc' = "pending"
                /\ UNCHANGED lmsg
           ELSE /\ rpc' = "release"
                /\ lmsg' = r.msg
                /\ UNCHANGED sentIds
    /\ UNCHANGED <<fixedVars, ncmd, tag, lidx, deferred, resp, waited,
                   timedout, lm, ltxid, chan, arrived, tableVars, threads, loopVars, histVars>>

\* ListenerRelease without the remove_callback call.
ListenerKeepsId ==
    /\ rpc = "release"
    /\ rpc' = "failreply"
    /\ UNCHANGED <<fixedVars, ncmd, tag, lidx, deferred, resp, waited,
                   timedout, listenerVars, chan, arrived, tableVars, sentIds,
                   threads, loopVars, histVars>>

\* The except clauses, first statement: remove_callback(txid).
ListenerRelease ==
    /\ rpc = "release"
    /\ callbacks' = [callbacks EXCEPT ![lm] = remove_callback(@, ltxid)]
    /\ rpc' = "failreply"
    /\ UNCHANGED <<fixedVars, ncmd, tag, lidx, deferred, resp, waited,
                   timedout, listenerVars, chan, arrived, baseindex, sentIds, threads,
                   loopVars, histVars>>

\* The except clauses, last statement: the txfailed reply.
ListenerFailReply ==
    /\ rpc = "failreply"
    /\ Put(ncmd, Immediate(ErrorResponse("txfailed", Errors(lm), lmsg)))
    /\ ListenerReturns
    /\ UNCHANGED <<fixedVars, ncmd, tag, deferred, resp, waited, timedout,
                   listenerVars, tableVars, sentIds, threads, loopVars>>

\* send_serial_listener line 348 / digital_out_listener line 335.
ListenerPending ==
    /\ rpc = "pending"
    /\ Put(ncmd, ResponsePending)
    /\ ListenerReturns
    /\ UNCHANGED <<fixedVars, ncmd, tag, deferred, resp, waited, timedout,
                   listenerVars, tableVars, sentIds, threads, loopVars>>

\* PublishReturns without the empty-queue check of lines 206-209.
PublishReturnsNoUnknown ==
    /\ rpc = "dispatch"
    /\ lidx > Len(topics[command])
    /\ deferred' = 0
    /\ waited' = 0
    /\ rpc' = "loop"
    /\ UNCHANGED <<fixedVars, ncmd, tag, lidx, resp, timedout, listenerVars,
                   chan, arrived, tableVars, sentIds, threads, loopVars, histVars>>

\* process_command lines 200-211: sendMessage has returned; an empty queue
\* means nobody handled the command.
PublishReturns ==
    /\ rpc = "dispatch"
    /\ lidx > Len(topics[command])
    /\ resp' = IF QueueEmpty
               THEN Append(resp, ErrorResponse("command.unknown", RciErrors, tag))
               ELSE resp
    /\ deferred' = 0
    /\ waited' = 0
    /\ rpc' = "loop"
    /\ UNCHANGED <<fixedVars, ncmd, tag, lidx, timedout, listenerVars,
                   chan, arrived, tableVars, sentIds, threads, loopVars, histVars>>

\* The children lines 243-248 append: one command.timeout per outstanding
\* deferral.
RECURSIVE TimeoutReplies(_)
TimeoutReplies(n) ==
    IF n <= 0 THEN <<>>
    ELSE <<ErrorResponse("command.timeout", RciErrors, "")>> \o TimeoutReplies(n - 1)

\* Pop without line 232: a DeferredResponse does not decrement the counter.
PopNoDecrement ==
    /\ rpc = "loop"
    /\ ~QueueEmpty
    /\ LET response == Head(chan[ncmd])
       IN  /\ chan' = [chan EXCEPT ![ncmd] = Tail(@)]
           /\ UNCHANGED arrived
           /\ waited' = 0
           /\ IF response.kind = "Pending"
              THEN deferred' = deferred + 1 /\ UNCHANGED resp
              ELSE /\ deferred' = deferred
                   /\ resp' = Append(resp, ReplyOf(response))
    /\ UNCHANGED <<fixedVars, ncmd, tag, rpc, lidx, timedout, listenerVars,
                   tableVars, sentIds, threads, loopVars, histVars>>

\* Pop whose counter never goes below zero: a DeferredResponse taken while
\* nothing is outstanding leaves it at 0.
PopFloorsAtZero ==
    /\ rpc = "loop"
    /\ ~QueueEmpty
    /\ LET response == Head(chan[ncmd])
       IN  /\ chan' = [chan EXCEPT ![ncmd] = Tail(@)]
           /\ UNCHANGED arrived
           /\ waited' = 0
           /\ IF response.kind = "Pending"
              THEN deferred' = deferred + 1 /\ UNCHANGED resp
              ELSE /\ deferred' = IF response.kind = "Deferred" /\ deferred > 0
                                  THEN deferred - 1 ELSE deferred
                   /\ resp' = Append(resp, ReplyOf(response))
    /\ UNCHANGED <<fixedVars, ncmd, tag, rpc, lidx, timedout, listenerVars,
                   tableVars, sentIds, threads, loopVars, histVars>>

\* One pass of the loop, lines 212-241, in which get() returns a value.
Pop ==
    /\ rpc = "loop"
    /\ ~QueueEmpty
    /\ LET response == Head(chan[ncmd])
       IN  /\ chan' = [chan EXCEPT ![ncmd] = Tail(@)]
           /\ UNCHANGED arrived
           /\ waited' = 0
           /\ IF response.kind = "Pending"
              THEN deferred' = deferred + 1 /\ UNCHANGED resp
              ELSE /\ deferred' = IF response.kind = "Deferred"
                                  THEN deferred - 1 ELSE deferred
                   /\ resp' = Append(resp, ReplyOf(response))
    /\ UNCHANGED <<fixedVars, ncmd, tag, rpc, lidx, timedout, listenerVars,
                   tableVars, sentIds, threads, loopVars, histVars>>

\* get(timeout=BLOCKING_LIMIT) is blocked on the empty queue while a
\* deferral is outstanding: one time unit passes.
Tick ==
    /\ rpc = "loop"
    /\ QueueEmpty /\ deferred > 0
    /\ waited < BLOCKING_LIMIT
    /\ waited' = waited + 1
    /\ UNCHANGED <<fixedVars, ncmd, tag, rpc, lidx, deferred, resp,
                   timedout, listenerVars, chan, arrived, tableVars, sentIds, threads,
                   loopVars, histVars>>

\* The same wait seen whole: the BLOCKING_LIMIT units pass with nothing
\* put on the queue.  No code reads the time a get() has been blocked, so
\* the units in between are not observable.
Expire ==
    /\ rpc = "loop"
    /\ QueueEmpty /\ deferred > 0
    /\ waited < BLOCKING_LIMIT
    /\ waited' = BLOCKING_LIMIT
    /\ UNCHANGED <<fixedVars, ncmd, tag, rpc, lidx, deferred, resp,
                   timedout, listenerVars, chan, arrived, tableVars, sentIds,
                   threads, loopVars, histVars>>

\* Timeout appending a single command.timeout whatever the counter is.
TimeoutOnce ==
    /\ rpc = "loop"
    /\ QueueEmpty /\ deferred > 0
    /\ waited = BLOCKING_LIMIT
    /\ timedout' = TRUE
    /\ resp' = resp \o TimeoutReplies(1)
    /\ rpc' = "returned"
    /\ UNCHANGED <<fixedVars, ncmd, tag, lidx, deferred, waited,
                   listenerVars, chan, arrived, tableVars, sentIds, threads,
                   loopVars, histVars>>

\* Timeout that also empties the slot the timed-out command holds.
TimeoutReleases ==
    /\ rpc = "loop"
    /\ QueueEmpty /\ deferred > 0
    /\ waited = BLOCKING_LIMIT
    /\ timedout' = TRUE
    /\ resp' = resp \o TimeoutReplies(deferred)
    /\ rpc' = "returned"
    /\ callbacks' = [m \in Managers |->
                        [i \in DOMAIN callbacks[m] |->
                            IF callbacks[m][i] = ncmd THEN None
                            ELSE callbacks[m][i]]]
    /\ UNCHANGED <<fixedVars, ncmd, tag, lidx, deferred, waited,
                   listenerVars, chan, arrived, baseindex, sentIds, threads,
                   loopVars, histVars>>

\* Timeout that goes round the loop again instead of leaving it: the wait
\* starts over.
TimeoutRetries ==
    /\ rpc = "loop"
    /\ QueueEmpty /\ deferred > 0
    /\ waited = BLOCKING_LIMIT
    /\ waited' = 0
    /\ UNCHANGED <<fixedVars, ncmd, tag, rpc, lidx, deferred, resp, timedout,
                   listenerVars, chan, arrived, tableVars, sentIds, threads,
                   loopVars, histVars>>

\* get() raises Queue.Empty (lines 215-219); the loop is left and lines
\* 243-250 append the timeouts and return.
Timeout ==
    /\ rpc = "loop"
    /\ QueueEmpty /\ deferred > 0
    /\ waited = BLOCKING_LIMIT
    /\ timedout' = TRUE
    /\ resp' = resp \o TimeoutReplies(deferred)
    /\ rpc' = "returned"
    /\ UNCHANGED <<fixedVars, ncmd, tag, lidx, deferred, waited,
                   listenerVars, chan, arrived, tableVars, sentIds, threads, loopVars, histVars>>

\* The loop condition of line 212 is false; lines 243-250 return.
Return ==
    /\ rpc = "loop"
    /\ QueueEmpty /\ ~(deferred > 0)
    /\ resp' = resp \o TimeoutReplies(deferred)
    /\ rpc' = "returned"
    /\ UNCHANGED <<fixedVars, ncmd, tag, lidx, deferred, waited, timedout,
                   listenerVars, chan, arrived, tableVars, sentIds, threads, loopVars, histVars>>

\* ------------------------------------------------------ the event-loop context
\* The transmission ids a status frame read from manager m's socket can
\* carry: the id of any transmission the socket accepted (its status may
\* come late or more than once) and the ids outside 1..max_id.
FrameIds(m) == sentIds[m] \cup {0, MaxId + 1}

\* HandleRead that checks the frame against the transmission the slot was
\* allocated for: a frame for an id whose current holder has not sent yet is
\* treated as one for an empty slot.
HandleReadGuarded(m, txid, status) ==
    /\ epc = "poll"
    /\ registered[m]
    /\ txid \in FrameIds(m)
    /\ IF ~ValidTxid(txid, MaxId)
       THEN epc' = "IndexError" /\ UNCHANGED <<em, eid, estatus, ecb>>
       ELSE IF \/ get_callback(callbacks[m], txid) = None
               \/ (rpc = "send" /\ lm = m /\ ltxid = txid)
       THEN epc' = "nocallback" /\ UNCHANGED <<em, eid, estatus, ecb>>
       ELSE /\ em' = m /\ eid' = txid /\ estatus' = status
            /\ ecb' = get_callback(callbacks[m], txid)
            /\ epc' = "remove"
    /\ UNCHANGED <<fixedVars, routerVars, listenerVars, chan, arrived, tableVars, sentIds,
                   threads, histVars>>

\* handle_read and handle_tx_status up to the lookup (manager.py 237-255 and 205-216,
\* ddo_manager.py 181-192): recvfrom, then get_callback.
HandleRead(m, txid, status) ==
    /\ epc = "poll"
    /\ registered[m]
    /\ txid \in FrameIds(m)
    /\ IF ~ValidTxid(txid, MaxId)
       THEN epc' = "IndexError" /\ UNCHANGED <<em, eid, estatus, ecb>>
       ELSE IF get_callback(callbacks[m], txid) = None
       THEN epc' = "nocallback" /\ UNCHANGED <<em, eid, estatus, ecb>>
       ELSE /\ em' = m /\ eid' = txid /\ estatus' = status
            /\ ecb' = get_callback(callbacks[m], txid)
            /\ epc' = "remove"
    /\ UNCHANGED <<fixedVars, routerVars, listenerVars, chan, arrived, tableVars, sentIds,
                   threads, histVars>>

\* handle_tx_status: the two early returns (manager.py 217-225, ddo 193-201)
\* log the frame and go back to the loop.
StatusDropped ==
    /\ epc \in {"IndexError", "nocallback"}
    /\ epc' = "poll"
    /\ UNCHANGED <<fixedVars, routerVars, listenerVars, chan, arrived, tableVars, sentIds,
                   threads, em, eid, estatus, ecb, histVars>>

\* StatusRemove without the remove_callback call.
StatusKeepsSlot ==
    /\ epc = "remove"
    /\ epc' = "invoke"
    /\ UNCHANGED <<fixedVars, routerVars, listenerVars, chan, arrived, tableVars,
                   sentIds, threads, em, eid, estatus, ecb, histVars>>

\* StatusRemove on one table shared by the managers: the id is released in
\* every table.
StatusRemoveShared ==
    /\ epc = "remove"
    /\ callbacks' = [m \in Managers |-> remove_callback(callbacks[m], eid)]
    /\ epc' = "invoke"
    /\ loopFreed' = IF em = lm /\ InListener THEN loopFreed \cup {eid}
                    ELSE loopFreed
    /\ UNCHANGED occBefore
    /\ UNCHANGED <<fixedVars, routerVars, listenerVars, chan, arrived,
                   baseindex, sentIds, threads, em, eid, estatus, ecb>>

\* handle_tx_status: remove_callback(tx_id) (manager.py 228, ddo 204).
StatusRemove ==
    /\ epc = "remove"
    /\ callbacks' = [callbacks EXCEPT ![em] = remove_callback(@, eid)]
    /\ epc' = "invoke"
    /\ loopFreed' = IF em = lm /\ InListener THEN loopFreed \cup {eid}
                    ELSE loopFreed
    /\ UNCHANGED occBefore
    /\ UNCHANGED <<fixedVars, routerVars, listenerVars, chan, arrived, baseindex, sentIds,
                   threads, em, eid, estatus, ecb>>

\* StatusInvoke on a channel that holds one value at most: the put waits
\* while the channel is not empty.
StatusInvokeBounded ==
    /\ epc = "invoke"
    /\ chan[ecb] = <<>>
    /\ Put(ecb, DeferredResponse(status_callback(em, estatus)))
    /\ epc' = "poll"
    /\ em' = "serial" /\ eid' = 0 /\ estatus' = 0 /\ ecb' = None
    /\ UNCHANGED <<fixedVars, routerVars, listenerVars, tableVars, sentIds,
                   threads, histVars>>

\* handle_tx_status: callback(...) (manager.py 230-232, ddo 206-208), which
\* runs status_callback with the response queue the lambda closed over.
StatusInvoke ==
    /\ epc = "invoke"
    /\ Put(ecb, DeferredResponse(status_callback(em, estatus)))
    /\ epc' = "poll"
    /\ em' = "serial" /\ eid' = 0 /\ estatus' = 0 /\ ecb' = None
    /\ UNCHANGED <<fixedVars, routerVars, listenerVars, tableVars, sentIds,
                   threads, histVars>>

\* The exceptions logged per manager are counted up to here.
MaxErrors == 1

\* asyncore.read: handle_read_event raises before the lookup (recvfrom
\* fails, or struct.unpack on a frame of the wrong size, manager.py 238 and
\* 209), and the except clause calls handle_error.
ReadRaises(m) ==
    /\ epc = "poll"
    /\ registered[m]
    /\ logged[m] < MaxErrors
    /\ epc' = "error"
    /\ em' = m
    /\ UNCHANGED <<sideVars, sockVars, routerVars, listenerVars, chan, arrived,
                   tableVars, sentIds, threads, eid, estatus, ecb, histVars>>

\* asyncore.dispatcher.handle_error, which the managers override: it logs
\* and calls handle_close, and close takes the socket out of the map.
HandleErrorCloses ==
    /\ epc = "error"
    /\ logged' = [logged EXCEPT ![em] = @ + 1]
    /\ registered' = [registered EXCEPT ![em] = FALSE]
    /\ epc' = "poll"
    /\ em' = "serial"
    /\ UNCHANGED <<sideVars, routerVars, listenerVars, chan, arrived,
                   tableVars, sentIds, threads, eid, estatus, ecb, histVars>>

\* handle_error (manager.py 364-368, ddo_manager.py 175-179): the exception
\* is logged and nothing else is done.
HandleError ==
    /\ epc = "error"
    /\ logged' = [logged EXCEPT ![em] = @ + 1]
    /\ epc' = "poll"
    /\ em' = "serial"
    /\ UNCHANGED <<sideVars, registered, routerVars, listenerVars, chan,
                   arrived, tableVars, sentIds, threads, eid, estatus, ecb,
                   histVars>>

\* ------------------------------------------------------------ specifications
RouterNext ==
    \/ \E t \in Tags : StartCommand(t)
    \/ PublishReturns
    \/ Pop
    \/ Timeout
    \/ Return

\* The listener of the command being dispatched, step by step.
ListenerNext ==
    \/ \E m \in Managers : ListenerChecks(m)
    \/ ListenerAlloc
    \/ \E poll \in PollResults, sendto \in SendtoResults :
          ListenerSend(poll, sendto)
    \/ ListenerRelease
    \/ ListenerFailReply
    \/ ListenerPending

\* handle_tx_status after the lookup.
CompletionNext ==
    \/ StatusDropped
    \/ StatusRemove
    \/ StatusInvoke

ManagerNext ==
    \/ ListenerNext
    \/ \E m \in Managers, txid \in 0..(MaxId + 1) :
          \E status \in Statuses(m) : HandleRead(m, txid, status)
    \/ CompletionNext

\* The gateway as xbgw_main wires it.
Next == RouterNext \/ Expire \/ ManagerNext \/ EchoListener

Spec == Init /\ [][Next]_vars

\* The router with the debug listeners: any mix of up to MaxSubs echo and
\* delayed-echo listeners subscribed to "command.echo".
DebugTopics ==
    {[n \in TopicNames |-> IF n = "command.echo" THEN s ELSE <<>>] :
        s \in UNION {[1..n -> {"echo", "delayed"}] : n \in 0..MaxSubs}}

RouterInit ==
    /\ topics \in DebugTopics
    /\ InitCommon /\ NewTable(MaxId) /\ NoBatch
    /\ settings = DefaultSettings
    /\ NoFrame
    /\ NoReport

DebugNext ==
    \/ RouterNext
    \/ Tick
    \/ EchoListener
    \/ DelayedEchoStart
    \/ DelayedEchoPending
    \/ \E c \in Cmds : EchoLater(c)

RouterSpec == RouterInit /\ [][DebugNext]_vars

\* ------------------------------------------------------ _handle_rci (rci.py)
\* resp_xml (lines 201-202): a "responses" element whose attribute command
\* is the tag, with the children appended so far.
resp_xml == [node |-> "responses", command |-> tag, children |-> resp]

\* "".join(strings)
RECURSIVE Join(_)
Join(strings) ==
    IF strings = <<>> THEN "" ELSE Head(strings) \o Join(Tail(strings))

\* ET.tostring of a child of the aggregate
ChildToString(r) ==
    IF r.err = "" THEN "<" \o r.node \o " />"
    ELSE "<" \o r.node \o "><error id=\"" \o r.err \o "\"><desc>" \o r.desc
         \o "</desc>"
         \o (IF r.hint = "" THEN "" ELSE "<hint>" \o r.hint \o "</hint>")
         \o "</error></" \o r.node \o ">"

\* ET.tostring(resp_xml)
tostring(x) ==
    IF x.children = <<>>
    THEN "<" \o x.node \o " command=\"" \o x.command \o "\" />"
    ELSE "<" \o x.node \o " command=\"" \o x.command \o "\">"
         \o Join([i \in DOMAIN x.children |-> ChildToString(x.children[i])])
         \o "</" \o x.node \o ">"

\* The bodies handed to _handle_rci: up to MaxCmds elements.
Bodies == UNION {[1..n -> Tags] : n \in 0..MaxCmds}

\* NextElement walking the body from its last element to its first.
NextElementBackwards ==
    /\ rpc = "idle" \/ (rpc = "returned" /\ Len(return_list) = ncmd)
    /\ ncmd < Len(root)
    /\ StartCommand(root[Len(root) - ncmd])

\* for command_element in root: resp_xml = process_command(command_element)
NextElement ==
    /\ rpc = "idle" \/ (rpc = "returned" /\ Len(return_list) = ncmd)
    /\ ncmd < Len(root)
    /\ StartCommand(root[ncmd + 1])

\* return_list.append(ET.tostring(resp_xml))
AppendAggregate ==
    /\ rpc = "returned"
    /\ Len(return_list) < ncmd
    /\ return_list' = Append(return_list, tostring(resp_xml))
    /\ UNCHANGED <<topics, uutVars, lockVars, root, returned, sockVars,
                   callVars, ioVars, parseVars, reportVars, routerVars,
                   listenerVars, chan, arrived, tableVars, sentIds, threads,
                   loopVars, histVars>>

\* return "".join(return_list)
HandleRciReturns ==
    /\ rpc = "idle" \/ (rpc = "returned" /\ Len(return_list) = ncmd)
    /\ ncmd = Len(root)
    /\ returned' = Join(return_list)
    /\ rpc' = "done"
    /\ UNCHANGED <<topics, uutVars, lockVars, root, return_list, sockVars,
                   callVars, ioVars, parseVars, reportVars, ncmd, tag, lidx, deferred, resp, waited, timedout, listenerVars, chan,
                   arrived, tableVars, sentIds, threads, loopVars, histVars>>

\* _handle_rci on any body, with the debug listeners subscribed.
BatchInit ==
    /\ topics \in DebugTopics
    /\ InitCommon /\ NewTable(MaxId)
    /\ root \in Bodies
    /\ settings = DefaultSettings
    /\ NoFrame
    /\ NoReport

BatchNext ==
    \/ NextElement
    \/ AppendAggregate
    \/ HandleRciReturns
    \/ PublishReturns
    \/ Pop
    \/ Expire
    \/ Timeout
    \/ Return
    \/ EchoListener
    \/ DelayedEchoStart
    \/ DelayedEchoPending
    \/ \E c \in Cmds : EchoLater(c)

BatchSpec == BatchInit /\ [][BatchNext]_vars

\* ------------------------------------------- TxStatusCallbacks, call by call
\* One table of any size up to MaxSlots, on which add_callback,
\* remove_callback and get_callback are called in any order with any id.
\* The listener handed to the k-th recorded call is k; at most MaxCalls calls
\* that reached the slot array are made.
TxidArgs == -1..(uut_max_id + 1)

UutAdd ==
    /\ Len(calls) < MaxCalls
    /\ LET r == add_callback(uut_callbacks, uut_baseindex, uut_max_id,
                             Len(calls) + 1)
       IN  /\ uut_callbacks' = r.cbs
           /\ uut_baseindex' = r.base
           /\ IF r.txid = 0
              THEN /\ ret' = [op |-> "add", arg |-> 0,
                              exc |-> "CallbacksFull", value |-> 0]
                   /\ UNCHANGED calls
              ELSE /\ ret' = [op |-> "add", arg |-> 0, exc |-> "",
                              value |-> r.txid]
                   /\ calls' = Append(calls, [op |-> "add", id |-> r.txid])
    /\ UNCHANGED <<uut_max_id, gatewayVars, lockVars>>

UutRemove(txid) ==
    /\ Len(calls) < MaxCalls
    /\ LET r == TxRemove(uut_callbacks, txid, uut_max_id)
       IN  /\ uut_callbacks' = r.cbs
           /\ ret' = [op |-> "remove", arg |-> txid, exc |-> r.exc,
                      value |-> 0]
           /\ calls' = IF r.exc = ""
                       THEN Append(calls, [op |-> "remove", id |-> txid])
                       ELSE calls
    /\ UNCHANGED <<uut_max_id, uut_baseindex, gatewayVars, lockVars>>

UutGet(txid) ==
    /\ LET r == TxGet(uut_callbacks, txid, uut_max_id)
       IN  ret' = [op |-> "get", arg |-> txid, exc |-> r.exc,
                   value |-> r.value]
    /\ UNCHANGED <<uut_max_id, uut_callbacks, uut_baseindex, calls,
                   gatewayVars, lockVars>>

AllocInit ==
    /\ topics = MainTopics /\ InitCommon /\ NoBatch
    /\ \E n \in 1..MaxSlots : NewTable(n)
    /\ settings = DefaultSettings
    /\ NoFrame
    /\ NoReport

AllocNext ==
    \/ UutAdd
    \/ \E txid \in TxidArgs : UutRemove(txid)
    \/ \E txid \in TxidArgs : UutGet(txid)

AllocSpec == AllocInit /\ [][AllocNext]_vars

\* --------------------------------- TxStatusCallbacks, statement by statement
\* The same table called from the two contexts at once, one step per
\* statement that touches _maplock or _callbacks.  The listeners' thread
\* calls add_callback and remove_callback (manager.py 309, 322, 341), the
\* event loop get_callback and remove_callback (manager.py 216, 228).
CallAdd(t) ==
    /\ t = "rci"
    /\ tpc[t] = "idle"
    /\ tpc' = [tpc EXCEPT ![t] = "add_lock"]
    /\ targ' = [targ EXCEPT ![t] = 1]
    /\ UNCHANGED <<uutVars, maplock, tfound, gatewayVars>>

CallRemove(t, txid) ==
    /\ tpc[t] = "idle"
    /\ targ' = [targ EXCEPT ![t] = txid]
    /\ tpc' = [tpc EXCEPT ![t] = IF ValidTxid(txid, uut_max_id)
                                 THEN "rm_lock" ELSE "IndexError"]
    /\ UNCHANGED <<uutVars, maplock, tfound, gatewayVars>>

CallGet(t, txid) ==
    /\ t = "loop"
    /\ tpc[t] = "idle"
    /\ targ' = [targ EXCEPT ![t] = txid]
    /\ tpc' = [tpc EXCEPT ![t] = IF ValidTxid(txid, uut_max_id)
                                 THEN "get_read" ELSE "IndexError"]
    /\ UNCHANGED <<uutVars, maplock, tfound, gatewayVars>>

\* with self._maplock: (entry)
Acquire(t) ==
    /\ tpc[t] \in {"add_lock", "rm_lock"}
    /\ maplock = "free"
    /\ maplock' = t
    /\ tpc' = [tpc EXCEPT ![t] = IF @ = "add_lock" THEN "add_scan"
                                 ELSE "rm_store"]
    /\ UNCHANGED <<uutVars, targ, tfound, gatewayVars>>

\* txid = self._next_index(); raise CallbacksFull when it is 0
AddScan(t) ==
    /\ tpc[t] = "add_scan"
    /\ LET txid == next_index(uut_callbacks, uut_baseindex, uut_max_id)
       IN  /\ tfound' = [tfound EXCEPT ![t] = txid]
           /\ tpc' = [tpc EXCEPT ![t] = IF txid = 0 THEN "release"
                                        ELSE "add_store"]
    /\ UNCHANGED <<uutVars, maplock, targ, gatewayVars>>

\* self._callbacks[txid] = listener and the move of the base index
AddStore(t) ==
    /\ tpc[t] = "add_store"
    /\ uut_callbacks' = [uut_callbacks EXCEPT ![tfound[t]] = targ[t]]
    /\ uut_baseindex' = IF uut_baseindex + 1 > uut_max_id THEN 1
                        ELSE uut_baseindex + 1
    /\ tpc' = [tpc EXCEPT ![t] = "release"]
    /\ UNCHANGED <<uut_max_id, calls, ret, maplock, targ, tfound,
                   gatewayVars>>

\* self._callbacks[txid] = None
RemoveStore(t) ==
    /\ tpc[t] = "rm_store"
    /\ uut_callbacks' = remove_callback(uut_callbacks, targ[t])
    /\ tpc' = [tpc EXCEPT ![t] = "release"]
    /\ UNCHANGED <<uut_max_id, uut_baseindex, calls, ret, maplock, targ,
                   tfound, gatewayVars>>

\* with self._maplock: (exit, by return or by CallbacksFull)
Release(t) ==
    /\ tpc[t] = "release"
    /\ maplock' = "free"
    /\ tpc' = [tpc EXCEPT ![t] = "idle"]
    /\ targ' = [targ EXCEPT ![t] = 0]
    /\ tfound' = [tfound EXCEPT ![t] = 0]
    /\ UNCHANGED <<uutVars, gatewayVars>>

\* return self._callbacks[txid]
GetRead(t) ==
    /\ tpc[t] = "get_read"
    /\ tfound' = [tfound EXCEPT ![t] = get_callback(uut_callbacks, targ[t])]
    /\ tpc' = [tpc EXCEPT ![t] = "got"]
    /\ UNCHANGED <<uutVars, maplock, targ, gatewayVars>>

\* The caller takes the value returned, or the IndexError raised.
CallEnds(t) ==
    /\ tpc[t] \in {"got", "IndexError"}
    /\ tpc' = [tpc EXCEPT ![t] = "idle"]
    /\ targ' = [targ EXCEPT ![t] = 0]
    /\ tfound' = [tfound EXCEPT ![t] = 0]
    /\ UNCHANGED <<uutVars, maplock, gatewayVars>>

LockNext ==
    \E t \in Threads :
        \/ CallAdd(t)
        \/ \E txid \in TxidArgs : CallRemove(t, txid)
        \/ \E txid \in TxidArgs : CallGet(t, txid)
        \/ Acquire(t)
        \/ AddScan(t)
        \/ AddStore(t)
        \/ RemoveStore(t)
        \/ Release(t)
        \/ GetRead(t)
        \/ CallEnds(t)

LockSpec == AllocInit /\ [][LockNext]_vars

\* -------------------------------------------------------------- properties
\* Values of kind k still in command c's queue.
Queued(c, k) == Cardinality({i \in DOMAIN chan[c] : chan[c][i].kind = k})

\* Values of kind k process_command has got from the current command's
\* queue.  Once it has returned, these are the values that arrived during
\* the invocation: it returns only on an empty queue.
Got(k) == arrived[ncmd][k] - Queued(ncmd, k)

IsTimeout(r) == r.err = "command.timeout"

IsUnknown(r) == r.err = "command.unknown"

\* C1: when the k >= 1 Pendings of a command were all matched by a Deferred
\* that arrived while process_command was still collecting, and m immediate
\* values arrived, the aggregate returned has exactly k + m children, none of
\* them a command.timeout, and the wait was never abandoned.
C1_PendingsMatchedGiveAllReplies ==
    (rpc = "returned" /\ Got("Pending") >= 1 /\ Got("Deferred") = Got("Pending"))
        => /\ Len(resp) = Got("Pending") + Got("Imm")
           /\ \A i \in DOMAIN resp : ~IsTimeout(resp[i])
           /\ ~timedout

\* One immediate reply, one Pending and its Deferred: two children.
C1_Witness ==
    /\ rpc = "returned" /\ ~timedout
    /\ Got("Pending") = 1 /\ Got("Deferred") = 1 /\ Got("Imm") = 1
    /\ Len(resp) = 2

\* C2: when a get() timed out, it did so after BLOCKING_LIMIT units on an
\* empty queue with d > 0 deferrals outstanding, and the aggregate returned
\* is the replies collected so far followed by exactly d command.timeout
\* errors; one Pending and nothing else gives exactly one command.timeout.
C2_TimeoutAppendsOnePerOutstanding ==
    (rpc = "returned" /\ timedout)
        => LET collected == Got("Imm") + Got("Deferred")
           IN  /\ waited = BLOCKING_LIMIT
               /\ deferred > 0
               /\ deferred = Got("Pending") - Got("Deferred")
               /\ Len(resp) = collected + deferred
               /\ \A i \in DOMAIN resp :
                     IF i <= collected THEN ~IsTimeout(resp[i])
                     ELSE resp[i] = ErrorResponse("command.timeout", RciErrors, "")
               /\ (Got("Pending") = 1 /\ collected = 0)
                     => resp = <<ErrorResponse("command.timeout", RciErrors, "")>>

\* Two Pendings never matched: two command.timeout children.
C2_Witness ==
    /\ rpc = "returned" /\ timedout
    /\ deferred = 2
    /\ resp = <<ErrorResponse("command.timeout", RciErrors, ""),
                ErrorResponse("command.timeout", RciErrors, "")>>

\* C3: when nothing was put on the queue by the time sendMessage returned,
\* the aggregate is the single command.unknown error with the tag as hint and
\* nothing is collected after it; a command somebody answered never gets a
\* command.unknown child.
C3_EmptyQueueGivesUnknown ==
    rpc \in {"loop", "returned"}
        => IF arrived[ncmd] = [k \in Kinds |-> 0]
           THEN resp = <<ErrorResponse("command.unknown", RciErrors, tag)>> /\ deferred = 0
           ELSE \A i \in DOMAIN resp : ~IsUnknown(resp[i])

C3_Witness ==
    /\ rpc = "returned"
    /\ tag = "test"
    /\ resp = <<ErrorResponse("command.unknown", RciErrors, "test")>>

\* The slots of every manager's table that hold command c's completion.
SlotsHolding(c) ==
    {mk \in Managers \X (1..MaxId) : callbacks[mk[1]][mk[2]] = c}

\* The completion handle_tx_status has looked up and not yet invoked.
InHand(c) == IF epc \in {"remove", "invoke"} /\ ecb = c THEN 1 ELSE 0

\* C4: every Pending a manager put on a command's channel is matched: its
\* Deferred has been put on the same channel, or a slot of the manager's
\* table (or the event loop, between lookup and call) still holds the
\* completion that will put it.
C4_PendingMatchedByDeferredOrSlot ==
    \A c \in Cmds :
        arrived[c]["Pending"]
            <= arrived[c]["Deferred"] + arrived[c]["Late"]
                   + Cardinality(SlotsHolding(c)) + InHand(c)

\* A step of the event-loop context that leaves the given position.
LoopLeaves(pos) == epc \in pos /\ epc' # epc

\* C5: handle_tx_status goes on to release and call only for a frame whose
\* id is in 1..max_id and whose slot holds a completion; it has emptied the
\* slot when it calls the completion, the call puts one Deferred on that
\* completion's channel, and no completion is ever called twice.  A frame
\* for an empty slot (a repeated frame among them) or with an id out of
\* range puts nothing on any channel and changes no slot.
C5_StatusFrameReleasesThenInvokesOnce ==
    /\ [](epc = "invoke" => callbacks[em][eid] # ecb)
    /\ [](\A c \in Cmds : arrived[c]["Deferred"] + arrived[c]["Late"] <= 1)
    /\ [][(LoopLeaves({"poll"}) /\ epc' = "remove")
            => /\ ValidTxid(eid', MaxId)
               /\ callbacks[em'][eid'] # None
               /\ ecb' = callbacks[em'][eid']]_vars
    /\ [][LoopLeaves({"invoke"})
            => /\ Put(ecb, DeferredResponse(status_callback(em, estatus)))
               /\ UNCHANGED tableVars]_vars
    /\ [][(LoopLeaves({"IndexError", "nocallback"})
             \/ (LoopLeaves({"poll"}) /\ epc' \in {"IndexError", "nocallback"}))
            => UNCHANGED <<chan, arrived, tableVars>>]_vars

\* A second frame with the id of a transmission whose completion was called
\* is being dropped.
C5_Witness ==
    /\ epc = "nocallback"
    /\ arrived[1]["Deferred"] = 1 /\ arrived[1]["Late"] = 0
    /\ sentIds["serial"] = {1} /\ sentIds["ddo"] = {}
    /\ callbacks["serial"][1] = None

\* The listener has returned after a failed attempt_send.
SendFailed == lmsg # "" /\ rpc \notin {"release", "failreply"}

\* C6 as stated: when attempt_send fails, the listener releases the id
\* before it returns, puts exactly one txfailed error and no Pending, and
\* the occupied slots are then those occupied before the command.
C6_FailedSendRestoresOccupied ==
    /\ [](rpc = "failreply"
            => /\ callbacks[lm][ltxid] = None
               /\ Occupied(callbacks[lm]) = occBefore)
    /\ [](SendFailed
            => arrived[ncmd]["Imm"] = 1 /\ arrived[ncmd]["Pending"] = 0)
    /\ [][(rpc = "failreply" /\ rpc' # rpc)
            => /\ rpc' = "dispatch"
               /\ chan' = [chan EXCEPT ![ncmd] = Append(@,
                     Immediate(ErrorResponse("txfailed", Errors(lm), lmsg)))]]_vars

\* C6, amended: as above, with the occupied slots being those occupied
\* before the command less the ones the event loop released meanwhile.
C6_FailedSendReleasesOwnId ==
    /\ [](rpc = "failreply"
            => /\ callbacks[lm][ltxid] = None
               /\ Occupied(callbacks[lm]) = occBefore \ loopFreed)
    /\ [](SendFailed
            => arrived[ncmd]["Imm"] = 1 /\ arrived[ncmd]["Pending"] = 0)
    /\ [][(rpc = "failreply" /\ rpc' # rpc)
            => /\ rpc' = "dispatch"
               /\ chan' = [chan EXCEPT ![ncmd] = Append(@,
                     Immediate(ErrorResponse("txfailed", Errors(lm), lmsg)))]]_vars

\* A DDO command whose sendto raised socket.error has been answered; the
\* serial manager still holds the slot of an earlier command.
C6_Witness ==
    /\ SendFailed /\ rpc = "returned"
    /\ lm = "ddo" /\ ltxid = 1 /\ callbacks["ddo"][1] = None
    /\ callbacks["serial"][1] = 1
    /\ resp = <<ErrorResponse("txfailed", DdoErrors, "strerror")>>

\* C7: the channel of a command whose send failed receives exactly one
\* value, the error reply, whatever the event loop does meanwhile.
C7_FailedSendGetsOneValue ==
    lmsg # ""
        => LET total == arrived[ncmd]["Imm"] + arrived[ncmd]["Pending"]
                            + arrived[ncmd]["Deferred"] + arrived[ncmd]["Late"]
           IN  IF SendFailed THEN total = 1 ELSE total = 0

\* The error ids of a command rejected on its attributes.
AttrErrors ==
    {"missingattr", "address", "encoding", "base64", "toomanyattrs",
     "invalidattr", "badoutput"}

\* Every send_serial element with a usable address, the base64 encoding
\* (given or by default) and a text that does not decode is answered with
\* the base64 error.
MalformedBase64Rejected ==
    \A el \in SerialElements :
        (Truthy(el.addr) /\ normalize_error(el.addr) = ""
            /\ el.encoding \in {"none", "base64"} /\ ~b64decode_ok(el.body))
        => send_serial_check(el) = ErrorResponse("base64", SerialErrors, "")

\* C8: a step that answers a command with a protocol or attribute error is
\* taken by a listener that has allocated no id and made no send attempt,
\* returns at once, and leaves the slot table, the cursor and the record of
\* sends unchanged; malformed base64 is answered with the base64 error (a
\* fact about the checks alone, evaluated once, before the first command).
C8_RejectedCommandTouchesNothing ==
    /\ [][\A c \in Cmds :
            (Len(chan'[c]) > Len(chan[c])
                /\ chan'[c][Len(chan'[c])].err \in AttrErrors)
            => /\ c = ncmd
               /\ rpc = "dispatch" /\ rpc' = "dispatch" /\ lidx' = lidx + 1
               /\ ltxid = 0 /\ ltxid' = 0
               /\ UNCHANGED <<tableVars, sentIds>>]_vars
    /\ [](rpc = "idle" => MalformedBase64Rejected)

\* A serial command with malformed base64 was rejected while the table held
\* the slot of an earlier command.
C8_Witness ==
    /\ rpc = "returned"
    /\ resp = <<ErrorResponse("base64", SerialErrors, "")>>
    /\ callbacks["serial"][1] = 1 /\ ncmd = 2
    /\ ltxid = 0

\* A step that puts value v on command c's channel.
Puts(c, v) == chan'[c] = Append(chan[c], v)

\* C9: when add_callback finds every slot occupied, the listener puts the
\* txfull error ("Too many outstanding transmits"), returns without a send
\* attempt and leaves the table and the cursor unchanged; the command's
\* aggregate is that single error.
C9_FullTableGivesTxfull ==
    /\ [][(rpc = "alloc" /\ rpc' # rpc
             /\ Occupied(callbacks[lm]) = 1..MaxId)
            => /\ Puts(ncmd, Immediate([node |-> "response", err |-> "txfull",
                     desc |-> "Too many outstanding transmits", hint |-> ""]))
               /\ rpc' = "dispatch"
               /\ ltxid' = 0
               /\ UNCHANGED <<tableVars, sentIds>>]_vars
    /\ []((rpc = "returned" /\ \E i \in DOMAIN resp : resp[i].err = "txfull")
            => /\ Len(resp) = 1
               /\ arrived[ncmd] = [k \in Kinds |-> IF k = "Imm" THEN 1 ELSE 0]
               /\ ltxid = 0)

\* The second serial command was refused while the first holds the slot.
C9_Witness ==
    /\ rpc = "returned" /\ ncmd = 2
    /\ resp = <<ErrorResponse("txfull", SerialErrors, "")>>
    /\ callbacks["serial"][1] = 1
    /\ sentIds["serial"] = {1}

\* Slot k of manager m holds a completion whose send succeeded.
SentSlot(m, k) ==
    /\ callbacks[m][k] # None
    /\ ~(callbacks[m][k] = ncmd /\ rpc \in {"send", "release"})

\* C10: a slot filled by a successful send changes only when the owning
\* manager's handle_tx_status releases it for a frame carrying its id; the
\* router's timeout leaves every slot as it is.
C10_SlotHeldUntilStatus ==
    /\ [][\A m \in Managers, k \in 1..MaxId :
            (SentSlot(m, k) /\ callbacks'[m][k] # callbacks[m][k])
            => /\ LoopLeaves({"remove"})
               /\ em = m /\ eid = k
               /\ callbacks'[m][k] = None]_vars
    /\ [][(timedout' /\ ~timedout) => UNCHANGED tableVars]_vars

\* The first command timed out and its slot is still occupied two commands
\* later.
C10_Witness ==
    /\ ncmd = 3 /\ rpc = "returned"
    /\ callbacks["serial"][1] = 1
    /\ arrived[1]["Pending"] = 1
    /\ arrived[1]["Deferred"] = 0 /\ arrived[1]["Late"] = 0

\* ------------------------------------------- properties of TxStatusCallbacks
\* The step is a call of add_callback that returned an id.
AddReturned == Len(calls') = Len(calls) + 1 /\ calls'[Len(calls')].op = "add"

\* The step is a call of remove_callback that reached the slot array.
RemoveDone ==
    Len(calls') = Len(calls) + 1 /\ calls'[Len(calls')].op = "remove"

\* The step is a call of add_callback that raised CallbacksFull.
AddRaised == ret'.op = "add" /\ ret'.exc = "CallbacksFull"

Slots == 1..uut_max_id

\* C11: an add_callback that succeeds returns an id in 1..max_id whose slot
\* was empty before the call, stores the listener in that slot and changes no
\* other slot; it never returns 0 and never overwrites an occupied slot.
C11_AddTakesAnEmptySlot ==
    /\ [][AddReturned =>
            LET k == calls'[Len(calls')].id
            IN  /\ k \in Slots
                /\ ret' = [op |-> "add", arg |-> 0, exc |-> "", value |-> k]
                /\ uut_callbacks[k] = None
                /\ uut_callbacks'[k] = Len(calls')
                /\ \A j \in DOMAIN uut_callbacks \ {k} :
                        uut_callbacks'[j] = uut_callbacks[j]]_vars
    /\ [][(ret'.op = "add" /\ ret'.exc = "" /\ ret' # ret) => AddReturned]_vars
    /\ [](DOMAIN uut_callbacks = 0..uut_max_id /\ uut_callbacks[0] = None)

\* An id handed out again after the cursor wrapped, in the largest table.
C11_Witness ==
    /\ uut_max_id = MaxSlots
    /\ ret.op = "add" /\ ret.exc = "" /\ ret.value = 1
    /\ Len(calls) >= MaxSlots + 2
    /\ Cardinality(Occupied(uut_callbacks)) = MaxSlots

\* The calls so far are max_id calls of add_callback on a new table.
FilledByAdds ==
    /\ Len(calls) = uut_max_id
    /\ \A i \in DOMAIN calls : calls[i].op = "add"

\* C12: add_callback raises CallbacksFull exactly when every slot 1..max_id
\* is occupied; a call that raises changes no slot and not the cursor; after
\* max_id allocations on a new table one more allocation raises.
C12_FullTableRaises ==
    /\ [][AddRaised =>
            /\ Occupied(uut_callbacks) = Slots
            /\ UNCHANGED <<uut_callbacks, uut_baseindex, calls>>]_vars
    /\ [][AddReturned => Occupied(uut_callbacks) # Slots]_vars
    /\ [](FilledByAdds =>
            /\ Occupied(uut_callbacks) = Slots
            /\ add_callback(uut_callbacks, uut_baseindex, uut_max_id,
                            Len(calls) + 1).txid = 0)

\* The largest table filled by max_id allocations has refused one more.
C12_Witness ==
    /\ uut_max_id = MaxSlots
    /\ FilledByAdds
    /\ ret = [op |-> "add", arg |-> 0, exc |-> "CallbacksFull", value |-> 0]

\* The cursor the last successful add_callback started from.
CursorBefore == IF uut_baseindex = 1 THEN uut_max_id ELSE uut_baseindex - 1

\* C13: with every slot occupied, wherever the cursor stands,
\* remove_callback(k) followed by add_callback returns k.
C13_RemoveThenAddReturnsSame ==
    /\ [][(RemoveDone /\ Occupied(uut_callbacks) = Slots) =>
            Occupied(uut_callbacks') = Slots \ {ret'.arg}]_vars
    /\ [][(/\ ret.op = "remove" /\ ret.exc = ""
           /\ Occupied(uut_callbacks) = Slots \ {ret.arg}
           /\ ret'.op = "add") =>
            /\ AddReturned
            /\ ret'.value = ret.arg
            /\ Occupied(uut_callbacks') = Slots]_vars

\* The largest table was filled, slot k was released and the next
\* allocation, whose cursor stood elsewhere, returned k.
C13_Witness ==
    /\ uut_max_id = MaxSlots
    /\ Len(calls) = MaxSlots + 2
    /\ \A i \in 1..MaxSlots : calls[i].op = "add"
    /\ calls[MaxSlots + 1].op = "remove"
    /\ calls[MaxSlots + 2] = [op |-> "add", id |-> calls[MaxSlots + 1].id]
    /\ ret.op = "add" /\ ret.value = calls[MaxSlots + 1].id
    /\ CursorBefore # ret.value

\* The calls so far begin with max_id allocations on a new table, followed
\* by the calls of `then`.
FilledThen(then) ==
    /\ Len(calls) >= uut_max_id + Len(then)
    /\ \A i \in 1..uut_max_id : calls[i].op = "add"
    /\ \A i \in DOMAIN then : calls[uut_max_id + i].op = then[i]

RemovedTwoThenOne ==
    /\ uut_max_id >= 2
    /\ FilledThen(<<"remove", "remove", "add", "add">>)
    /\ calls[uut_max_id + 1].id = 2
    /\ calls[uut_max_id + 2].id = 1

\* C14 as stated: on a table filled by max_id allocations, after
\* remove_callback(2) and then remove_callback(1), the next two add_callback
\* calls return 2 and then 1.
C14_FreedTwoOneReturnsTwoOne ==
    RemovedTwoThenOne =>
        /\ calls[uut_max_id + 3].id = 2
        /\ calls[uut_max_id + 4].id = 1

\* C14 amended: after max_id allocations the cursor is back at 1, so the
\* next two add_callback calls return 1 and then 2; an id released and
\* allocated again at once comes back (remove 2, add gives 2, remove 1, add
\* gives 1).
C14_FreedTwoOneReturnsOneTwo ==
    /\ FilledByAdds => uut_baseindex = 1
    /\ RemovedTwoThenOne =>
        /\ calls[uut_max_id + 3].id = 1
        /\ calls[uut_max_id + 4].id = 2
    /\ (/\ uut_max_id >= 2
        /\ FilledThen(<<"remove", "add", "remove", "add">>)
        /\ calls[uut_max_id + 1].id = 2
        /\ calls[uut_max_id + 3].id = 1) =>
            /\ calls[uut_max_id + 2].id = 2
            /\ calls[uut_max_id + 4].id = 1

\* Ids 2 and 1 of the largest table were released in that order after it
\* was filled, and two more allocations were made.
C14_Witness ==
    /\ uut_max_id = MaxSlots
    /\ RemovedTwoThenOne
    /\ Len(calls) = uut_max_id + 4
    /\ ret.op = "add" /\ ret.exc = ""

\* The first empty slot of cbs in the cyclic order start, start + 1, ...,
\* max_id, 1, ..., start - 1; 0 when no slot is empty.
FirstEmptyFrom(cbs, start) ==
    LET n    == uut_max_id
        free == (1..n) \ Occupied(cbs)
        dist(k) == (k - start + n) % n
    IN  IF free = {} THEN 0
        ELSE CHOOSE k \in free : \A j \in free : dist(k) <= dist(j)

\* The slot after the id the latest successful add_callback returned,
\* wrapping from max_id to 1; slot 1 when there was none.
AfterLastIssued(log) ==
    LET adds == {i \in DOMAIN log : log[i].op = "add"}
    IN  IF adds = {} THEN 1
        ELSE LET last == CHOOSE i \in adds : \A j \in adds : i >= j
             IN  (log[last].id % uut_max_id) + 1

\* Successful calls of add_callback so far.
AddCount == Cardinality({i \in DOMAIN calls : calls[i].op = "add"})

\* C15 as stated: add_callback starts probing at the slot after the id the
\* previous successful add_callback returned and returns the first empty
\* slot in cyclic order from there.
C15_ProbesFromLastIssued ==
    [][AddReturned =>
        ret'.value = FirstEmptyFrom(uut_callbacks, AfterLastIssued(calls))]_vars

\* C15 amended: add_callback starts probing at the cursor, which starts at 1
\* and moves one slot forward (from max_id to 1, never to 0) on every
\* successful add_callback, whichever id that call returned; it returns the
\* first empty slot in cyclic order from the cursor and looks at no more than
\* the max_id slots 1..max_id.
C15_ProbesFromCursor ==
    /\ [][AddReturned =>
            /\ ret'.value = FirstEmptyFrom(uut_callbacks, uut_baseindex)
            /\ uut_baseindex' = (uut_baseindex % uut_max_id) + 1]_vars
    /\ [][~AddReturned => uut_baseindex' = uut_baseindex]_vars
    /\ [](uut_baseindex = (AddCount % uut_max_id) + 1)
    /\ [](next_index(uut_callbacks, uut_baseindex, uut_max_id)
            = FirstEmptyFrom(uut_callbacks, uut_baseindex))

\* An allocation returned an id other than the first empty slot after the
\* previously issued id.
C15_Witness ==
    /\ ret.op = "add" /\ ret.exc = ""
    /\ Len(calls) >= 2 /\ calls[Len(calls)].op = "add"
    /\ ret.value # FirstEmptyFrom([uut_callbacks EXCEPT ![ret.value] = None],
                                  AfterLastIssued(SubSeq(calls, 1,
                                                         Len(calls) - 1)))

\* ------------------------------------------------ properties, continued
OutOfRange(txid) == txid <= 0 \/ txid > MaxId

\* C16: remove_callback and get_callback raise IndexError exactly for an id
\* that is <= 0 or > max_id, and then leave the slots (and the cursor, which
\* they never touch) as they were; in a manager a status frame carrying such
\* an id is dropped: nothing but the event loop's position changes, and the
\* loop goes back to polling.
C16_OutOfRangeIdIsDropped ==
    /\ [](\A m \in Managers : \A txid \in -1..(MaxId + 1) :
            LET rm == TxRemove(callbacks[m], txid, MaxId)
                gt == TxGet(callbacks[m], txid, MaxId)
            IN  /\ (rm.exc = "IndexError") <=> OutOfRange(txid)
                /\ (gt.exc = "IndexError") <=> OutOfRange(txid)
                /\ OutOfRange(txid) => rm.cbs = callbacks[m]
                /\ rm.exc \in {"", "IndexError"}
                /\ gt.exc \in {"", "IndexError"})
    /\ [][(epc = "poll" /\ epc' = "IndexError") =>
            /\ \E m \in Managers : \E txid \in FrameIds(m) :
                    \E status \in Statuses(m) :
                        OutOfRange(txid) /\ HandleRead(m, txid, status)
            /\ UNCHANGED <<tableVars, chan, arrived, sentIds, routerVars,
                           listenerVars, ecb>>]_vars
    /\ [][(epc = "poll" /\ epc' # "poll" /\ epc' # "IndexError") =>
            \E m \in Managers : \E txid \in FrameIds(m) :
                \E status \in Statuses(m) :
                    ~OutOfRange(txid) /\ HandleRead(m, txid, status)]_vars
    /\ [][(epc = "IndexError" /\ epc' # epc) =>
            /\ epc' = "poll"
            /\ UNCHANGED <<tableVars, chan, arrived, sentIds, routerVars,
                           listenerVars, ecb>>]_vars
    /\ [](epc = "IndexError" => ENABLED StatusDropped)

\* A frame with an id out of range is being dropped while a completion is
\* stored.
C16_Witness ==
    /\ epc = "IndexError"
    /\ \E m \in Managers : Occupied(callbacks[m]) # {}

\* ------------------------------------------- properties of the table's lock
\* Thread t is about to read or write _callbacks.
AtSlotArray(t) == tpc[t] \in {"add_scan", "add_store", "rm_store", "get_read"}

\* C17: every operation reads and writes the slot array only while holding
\* the table's lock, no two operations are at the slot array at once, and
\* the lock is not held outside a call on the table (where the managers do
\* their socket I/O and invoke completions).
C17_SlotArrayOnlyUnderLock ==
    /\ \A t \in Threads : AtSlotArray(t) => maplock = t
    /\ \A t, u \in Threads : (AtSlotArray(t) /\ AtSlotArray(u)) => t = u
    /\ \A t \in Threads : tpc[t] = "idle" => maplock # t

\* ---------------------------------------------- properties of _handle_rci
\* C18: for a body of n elements _handle_rci publishes once per element, on
\* the topic "command.<tag>" of that element, in document order; the
\* element after one is published only when that one's aggregate is complete
\* and appended; the text returned is the concatenation of the n serialised
\* aggregates in the same order.
C18_BatchInDocumentOrder ==
    /\ [][ncmd' # ncmd =>
            /\ ncmd' = ncmd + 1 /\ ncmd' <= Len(root)
            /\ tag' = root[ncmd']
            /\ command' = "command." \o root[ncmd']
            /\ rpc' = "dispatch" /\ lidx' = 1
            /\ Len(return_list) = ncmd
            /\ ncmd >= 1 => rpc = "returned"]_vars
    /\ [][(lidx' # lidx /\ ncmd' = ncmd) =>
            /\ lidx' = lidx + 1
            /\ lidx \in DOMAIN topics["command." \o root[ncmd]]]_vars
    /\ [][return_list' # return_list =>
            /\ rpc = "returned" /\ Len(return_list) = ncmd - 1
            /\ resp_xml.command = root[ncmd]
            /\ return_list' = Append(return_list, tostring(resp_xml))]_vars
    /\ [](rpc = "done" =>
            /\ ncmd = Len(root)
            /\ Len(return_list) = Len(root)
            /\ returned = Join(return_list))
    /\ [](rpc # "done" => returned = "")

\* A full body whose first two elements differ has been answered.
C18_Witness ==
    /\ rpc = "done"
    /\ Len(root) = MaxCmds
    /\ root[1] = "echo" /\ root[2] = "test"
    /\ Len(topics["command.echo"]) = 2
    /\ returned # ""

\* The step is one get() of the current command's loop that returned a value.
Popped == ncmd' = ncmd /\ Len(chan'[ncmd]) < Len(chan[ncmd])

\* C19: the aggregate of a command is one "responses" node whose attribute
\* command is the tag; every value popped that is not ResponsePending adds
\* one "response" child, in the order popped; ResponsePending adds none; the
\* command.timeout children are appended last.
C19_AggregateInPopOrder ==
    /\ [](resp_xml.node = "responses" /\ resp_xml.command = tag)
    /\ [](\A i \in DOMAIN resp : resp[i].node = "response")
    /\ [][Popped =>
            LET v == Head(chan[ncmd])
            IN  /\ rpc = "loop" /\ chan'[ncmd] = Tail(chan[ncmd])
                /\ IF v.kind = "Pending" THEN resp' = resp
                   ELSE /\ Len(resp') = Len(resp) + 1
                        /\ SubSeq(resp', 1, Len(resp)) = resp
                        /\ resp'[Len(resp')] =
                              [node |-> "response", err |-> v.err,
                               desc |-> v.desc, hint |-> v.hint]]_vars
    /\ [][(resp' # resp /\ ncmd' = ncmd /\ ~Popped) =>
            \/ /\ rpc = "dispatch" /\ rpc' = "loop" /\ QueueEmpty
               /\ resp' = Append(resp, ErrorResponse("command.unknown",
                                                     RciErrors, tag))
            \/ /\ rpc = "loop" /\ rpc' = "returned" /\ deferred > 0
               /\ resp' = resp \o [i \in 1..deferred |->
                                     ErrorResponse("command.timeout",
                                                   RciErrors, "")]]_vars
    /\ [][(rpc = "returned" /\ ncmd' = ncmd) => resp' = resp]_vars
    /\ [](\A i, j \in DOMAIN resp :
            (i < j /\ IsTimeout(resp[i])) => IsTimeout(resp[j]))

\* A command returned an echo reply followed by a timeout, after popping
\* ResponsePending values.
C19_Witness ==
    /\ rpc = "returned" /\ timedout
    /\ Len(resp) >= 2
    /\ resp[1] = [node |-> "response", err |-> "", desc |-> "", hint |-> ""]
    /\ IsTimeout(resp[Len(resp)])
    /\ arrived[ncmd]["Pending"] >= 2

\* ------------------------------------------------ properties of the listeners
ManagerTags == {"send_serial", "set_digital_output"}

\* C20: whatever the element (any combination of attributes and body, an
\* empty body included), send_serial_listener and digital_out_listener have
\* put exactly one value, an error or ResponsePending, on the channel when
\* they return, and no exception leaves them.
C20_ListenerPutsOneValue ==
    (rpc = "dispatch" /\ tag \in ManagerTags /\ lidx = 2) =>
        arrived[ncmd]["Imm"] + arrived[ncmd]["Pending"] = 1

\* ------------------------------------------- properties of the event loop
\* process_command is blocked in get() waiting for a Deferred.
RouterBlocked == rpc = "loop" /\ QueueEmpty /\ deferred > 0

\* C21: the event loop never waits on a command's channel: wherever it
\* stands its next step can be taken, whatever the invoking context is
\* doing (blocked in get() included); the completion it calls only appends
\* to the channel, changes nothing of the invoking context and goes back to
\* polling.
C21_EventLoopNeverBlocks ==
    /\ [](epc = "invoke" => ENABLED StatusInvoke)
    /\ [](epc = "remove" => ENABLED StatusRemove)
    /\ [](epc \in {"IndexError", "nocallback"} => ENABLED StatusDropped)
    /\ [](epc = "poll" =>
            \A m \in Managers : \A txid \in FrameIds(m) :
                \A status \in Statuses(m) :
                    ENABLED HandleRead(m, txid, status))
    /\ [](epc \in {"poll", "invoke", "remove", "IndexError", "nocallback"})
    /\ [][(epc = "invoke" /\ epc' # epc) =>
            /\ epc' = "poll"
            /\ UNCHANGED <<routerVars, listenerVars>>
            /\ \/ chan' = [chan EXCEPT ![ecb] = Append(@,
                        DeferredResponse(status_callback(em, estatus)))]
               \/ Abandoned(ecb) /\ chan' = chan]_vars

\* The event loop is about to call the completion of the command whose
\* process_command is blocked in get(), with a value still to be put.
C21_Witness ==
    /\ RouterBlocked
    /\ epc = "invoke" /\ ecb = ncmd

\* C22: transmission ids are local to a manager: a status frame read from
\* manager m's socket looks up, releases and invokes only what m's own table
\* holds under the id, and leaves the other manager's table as it is, also
\* when that table holds a completion under the same id.
C22_IdsAreManagerLocal ==
    /\ [][(epc = "poll" /\ epc' = "remove") =>
            /\ \E status \in Statuses(em') : HandleRead(em', eid', status)
            /\ eid' \in FrameIds(em')
            /\ ecb' = callbacks[em'][eid'] /\ ecb' # None
            /\ UNCHANGED tableVars]_vars
    /\ [][(epc = "remove" /\ epc' # epc) =>
            /\ callbacks'[em] = [callbacks[em] EXCEPT ![eid] = None]
            /\ \A m \in Managers \ {em} : callbacks'[m] = callbacks[m]
            /\ UNCHANGED <<baseindex, em, eid, ecb>>]_vars
    /\ [][(epc = "invoke" /\ epc' # epc) =>
            /\ UNCHANGED tableVars
            /\ \A c \in Cmds \ {ecb} :
                    chan'[c] = chan[c] /\ arrived'[c] = arrived[c]
            /\ arrived'[ecb] # arrived[ecb]]_vars

\* Both managers hold a completion under id 1, for different commands, and
\* the serial manager's frame has released only its own.
C22_Witness ==
    /\ epc = "invoke" /\ em = "serial" /\ eid = 1
    /\ callbacks["serial"][1] = None
    /\ callbacks["ddo"][1] # None
    /\ callbacks["ddo"][1] # ecb

\* ------------------------------------------------ status codes, one command
\* The status codes a frame carries here: the small ones up to MaxCode,
\* every code either table knows, and the unknown code of test_status_errors.
MaxCode == 8

UNKNOWN_STATUS == 80

Codes ==
    (0..MaxCode) \cup DOMAIN SerialTxStatuses \cup DOMAIN DdoTxStatuses
    \cup {UNKNOWN_STATUS}

\* One send_serial or set_digital_output command, status frames that carry
\* any code, and reads that raise.
StatusNext ==
    \/ ncmd = 0 /\ \E t \in ManagerTags : StartCommand(t)
    \/ PublishReturns
    \/ Pop
    \/ Timeout
    \/ Return
    \/ Expire
    \/ ListenerNext
    \/ \E m \in Managers, txid \in 0..(MaxId + 1) :
          \E status \in Codes : HandleRead(m, txid, status)
    \/ CompletionNext
    \/ \E m \in Managers : ReadRaises(m)
    \/ HandleError

StatusSpec == Init /\ [][StatusNext]_vars

\* The codes manager m's TX_STATUSES knows.
Known(m) == DOMAIN (IF m = "serial" THEN SerialTxStatuses ELSE DdoTxStatuses)

\* The completion held by handle_tx_status runs: one value is put on the
\* queue it closed over (a queue nobody reads any more keeps nothing).
Completes == epc = "invoke" /\ epc' = "poll"

PutsOnly(v) ==
    \/ ~Abandoned(ecb) /\ chan' = [chan EXCEPT ![ecb] = Append(@, v)]
    \/ Abandoned(ecb) /\ chan' = chan

Deferred(errid, description, hinttext) ==
    [kind |-> "Deferred", node |-> "response", err |-> errid,
     desc |-> description, hint |-> hinttext]

\* C23 as stated: for both managers, a status frame whose code the manager's
\* table does not know makes the completion put one Deferred error with id
\* "unexpected" whose hint carries the raw code.
C23_UnknownCodeIsUnexpected ==
    [][(Completes /\ estatus \notin Known(em)) =>
          \E hinttext \in {Dec(estatus), "Unexpected status: " \o Dec(estatus),
                           "0x" \o Hex02(estatus),
                           "0x" \o Hex02(estatus) \o ": Unknown"} :
              PutsOnly(Deferred("unexpected",
                                "Unexpected/unclassified error", hinttext))]_vars

\* C23: a status frame whose code the table does not know makes the DDO
\* manager's completion put one Deferred error with id "unexpected" and hint
\* "Unexpected status: <code>", and the serial manager's completion put one
\* Deferred error with id "txstatus" and hint "0x<code>: Unknown".
C23_UnknownCodeByManager ==
    [][(Completes /\ estatus \notin Known(em)) =>
          IF em = "ddo"
          THEN PutsOnly(Deferred("unexpected", "Unexpected/unclassified error",
                                 "Unexpected status: " \o Dec(estatus)))
          ELSE PutsOnly(Deferred("txstatus", "TX Status delivery failure",
                                 "0x" \o Hex02(estatus) \o ": Unknown"))]_vars

\* The DDO completion has answered the command with "unexpected" for code 80
\* (test_status_errors).
C23_Witness ==
    /\ epc = "poll" /\ tag = "set_digital_output" /\ ncmd = 1
    /\ chan[1] = <<Deferred("unexpected", "Unexpected/unclassified error",
                            "Unexpected status: 80")>>

\* C24: the serial manager's completion puts one Deferred reply: for
\* delivery status 0 a response without error and without text, for any
\* other status a txstatus error whose hint is "0x<code>: <name>" when
\* TX_STATUSES knows the code and "0x<code>: Unknown" when it does not.
C24_SerialStatusReply ==
    [][(Completes /\ em = "serial") =>
          IF estatus = 0
          THEN PutsOnly([kind |-> "Deferred", node |-> "response", err |-> "",
                         desc |-> "", hint |-> ""])
          ELSE PutsOnly(Deferred("txstatus", "TX Status delivery failure",
                   "0x" \o Hex02(estatus) \o ": " \o
                   (IF estatus \in Known("serial")
                    THEN SerialTxStatuses[estatus] ELSE "Unknown")))]_vars

\* The serial completion has answered the command with the hint of an
\* unknown code (code 3 of test_send_serial_error).
C24_Witness ==
    /\ epc = "poll" /\ tag = "send_serial" /\ ncmd = 1 /\ Len(chan[1]) = 1
    /\ chan[1][1].kind = "Deferred"
    /\ chan[1][1].hint = "0x03: Unknown"

\* ---------------------------------------------- a listener called directly
\* The longest list poller.poll(0) returns here.
MaxFds == 2

\* self.socket.fileno() and another descriptor; the event masks poll reports.
Fds == {"sockfd", "other"}

Events == {"POLLOUT", "POLLERR", "POLLOUT|POLLERR"}

\* The pairs a poll result holds: this socket with any of the masks, and
\* another descriptor ready for writing.
PollPairs == ({"sockfd"} \X Events) \cup ((Fds \ {"sockfd"}) \X {"POLLOUT"})

FdLists == UNION {[1..n -> PollPairs] : n \in 0..MaxFds}

\* More set_digital_output bodies: no text, other spellings, padding.
MoreBodies == {"none", "LOW", "High", "True", "0", " high "}

CallElements ==
    SerialElements \cup DigitalElements \cup
    {Elem("set_digital_output", a[1], "none", a[2], a[3], a[4]) :
        a \in Addrs \X Indexes \X Names \X MoreBodies}

ManagerOf(element) == IF element.tag = "send_serial" THEN "serial" ELSE "ddo"

Check(element) ==
    IF ManagerOf(element) = "serial" THEN send_serial_check(element)
    ELSE digital_out_check(element)

\* The bytes of the serial bodies: base64.b64decode(msg) and
\* msg.encode('utf-8') (manager.py 285, 293).
b64decode(msg) == <<49, 50, 51, 52>>

Utf8(msg) ==
    IF msg = "abc" THEN <<97, 98, 99>>
    ELSE <<77, 84, 73, 122, 78, 65, 61, 61>>

\* The payload the listener hands to attempt_send: msg (manager.py 319) or
\* dest_value (ddo_manager.py 327, 332).
Payload(element) ==
    IF ManagerOf(element) = "serial"
    THEN IF element.encoding \in {"none", "base64"}
         THEN b64decode(element.body) ELSE Utf8(element.body)
    ELSE Pack(parse_digital_value(Strip(element.body)))

callSide == <<topics, mainVars, rciVars, lockVars, sockVars, ioVars, parseVars, reportVars,
              uut_max_id, calls, ret>>

\* The listener is called with an element and runs its attribute checks
\* (manager.py 258-302, ddo_manager.py 215-312).  The table under test is
\* the table of the manager the first accepted command went to.
CallListener(element) ==
    /\ dpc = "idle"
    /\ Occupied(uut_callbacks) = {} \/ ManagerOf(element) = dm
    /\ dm' = ManagerOf(element)
    /\ delement' = element
    /\ dfds' = <<>> /\ dfdi' = 0 /\ dsendtos' = <<>> /\ dtxid' = 0 /\ dexc' = ""
    /\ LET r == Check(element)
       IN  IF r.err = "" THEN dpc' = "alloc" /\ dputs' = <<>>
           ELSE IF r.err = "raise" THEN dpc' = "raised" /\ dputs' = <<>>
           ELSE dpc' = "returned" /\ dputs' = <<Immediate(r)>>
    /\ UNCHANGED <<callSide, uut_callbacks, uut_baseindex>>

\* add_callback, or the txfull reply (manager.py 304-312, ddo 315-323).
DirectAlloc ==
    /\ dpc = "alloc"
    /\ LET a == add_callback(uut_callbacks, uut_baseindex, uut_max_id, 1)
       IN  IF a.txid = 0
           THEN /\ dputs' = Append(dputs,
                        Immediate(ErrorResponse("txfull", Errors(dm), "")))
                /\ dpc' = "returned"
                /\ UNCHANGED <<dtxid, uut_callbacks, uut_baseindex>>
           ELSE /\ uut_callbacks' = a.cbs
                /\ uut_baseindex' = a.base
                /\ dtxid' = a.txid
                /\ dpc' = "poll"
                /\ UNCHANGED dputs
    /\ UNCHANGED <<callSide, dm, delement, dfds, dfdi, dsendtos, dexc>>

\* attempt_send: fds = self.poller.poll(0) and the test on it (manager.py
\* 372-374, ddo 363-366).  The poll returns at once with what is ready.
DirectPoll(result) ==
    /\ dpc = "poll"
    /\ dfds' = result
    /\ IF result = <<>>
       THEN dexc' = "No poll events returned" /\ dpc' = "except" /\ dfdi' = 0
       ELSE dexc' = "" /\ dpc' = "loop" /\ dfdi' = 1
    /\ UNCHANGED <<callSide, uut_callbacks, uut_baseindex, dm, delement,
                   dsendtos, dputs, dtxid>>

\* The for loop without its break: it goes on to the next pair after a
\* sendto that returned.
DirectLoopNoBreak(sendto) ==
    /\ dpc = "loop"
    /\ IF dfdi > Len(dfds)
       THEN /\ IF dsendtos = <<>>
               THEN dexc' = "Socket not available for write" /\ dpc' = "except"
               ELSE dexc' = "" /\ dpc' = "pending"
            /\ UNCHANGED <<dfdi, dsendtos>>
       ELSE IF dfds[dfdi] = <<"sockfd", "POLLOUT">>
       THEN /\ dsendtos' = Append(dsendtos, Payload(delement))
            /\ IF sendto = "ok"
               THEN dexc' = "" /\ dfdi' = dfdi + 1 /\ UNCHANGED dpc
               ELSE dexc' = "strerror" /\ dpc' = "except" /\ UNCHANGED dfdi
       ELSE dfdi' = dfdi + 1 /\ UNCHANGED <<dpc, dsendtos, dexc>>
    /\ UNCHANGED <<callSide, uut_callbacks, uut_baseindex, dm, delement, dfds,
                   dputs, dtxid>>

\* attempt_send: one turn of "for fd, event in fds" (manager.py 376-383, ddo
\* 367-376): the pair (sockfd, POLLOUT) gets the sendto and the break, any
\* other pair is passed over, and the else clause raises.
DirectLoop(sendto) ==
    /\ dpc = "loop"
    /\ IF dfdi > Len(dfds)
       THEN /\ dexc' = "Socket not available for write"
            /\ dpc' = "except"
            /\ UNCHANGED <<dfdi, dsendtos>>
       ELSE IF dfds[dfdi] = <<"sockfd", "POLLOUT">>
       THEN /\ dsendtos' = Append(dsendtos, Payload(delement))
            /\ IF sendto = "ok" THEN dexc' = "" /\ dpc' = "pending"
               ELSE dexc' = "strerror" /\ dpc' = "except"
            /\ UNCHANGED dfdi
       ELSE dfdi' = dfdi + 1 /\ UNCHANGED <<dpc, dsendtos, dexc>>
    /\ UNCHANGED <<callSide, uut_callbacks, uut_baseindex, dm, delement, dfds,
                   dputs, dtxid>>

\* The except clauses (manager.py 320-344, ddo 336-359): remove_callback and
\* the txfailed reply.
DirectExcept ==
    /\ dpc = "except"
    /\ uut_callbacks' = remove_callback(uut_callbacks, dtxid)
    /\ dputs' = Append(dputs,
                    Immediate(ErrorResponse("txfailed", Errors(dm), dexc)))
    /\ dpc' = "returned"
    /\ UNCHANGED <<callSide, uut_baseindex, dm, delement, dfds, dfdi,
                   dsendtos, dtxid, dexc>>

\* response.put(ResponsePending) (manager.py 348, ddo 335).
DirectPending ==
    /\ dpc = "pending"
    /\ dputs' = Append(dputs, ResponsePending)
    /\ dpc' = "returned"
    /\ UNCHANGED <<callSide, uut_callbacks, uut_baseindex, dm, delement, dfds,
                   dfdi, dsendtos, dtxid, dexc>>

\* The caller is done with the call: the listener's locals and the response
\* queue go away, the manager and its table stay.
DirectDone ==
    /\ dpc \in {"returned", "raised"}
    /\ dpc' = "idle"
    /\ delement' = NoElement
    /\ dfds' = <<>> /\ dfdi' = 0 /\ dsendtos' = <<>> /\ dputs' = <<>>
    /\ dtxid' = 0 /\ dexc' = ""
    /\ UNCHANGED <<callSide, uut_callbacks, uut_baseindex, dm>>

CallNext ==
    \/ \E element \in CallElements : CallListener(element)
    \/ DirectAlloc
    \/ \E result \in FdLists : DirectPoll(result)
    \/ \E sendto \in SendtoResults : DirectLoop(sendto)
    \/ DirectExcept
    \/ DirectPending
    \/ DirectDone

CallSpec == Init /\ [][CallNext]_vars

\* attempt_send has returned or raised in the call at hand.
Attempted == dpc \in {"pending", "except"} \/ (dpc = "returned" /\ dtxid # 0)

\* The three outcomes of the poll that attempt_send tells apart.
Classify(fds) ==
    IF fds = <<>> THEN "empty"
    ELSE IF \E i \in 1..Len(fds) : fds[i] = <<"sockfd", "POLLOUT">>
    THEN "pollout" ELSE "other"

\* C25: attempt_send raises SocketUnavailable without calling sendto when the
\* poll returns no events and when no returned pair is (this socket's
\* descriptor, POLLOUT); otherwise it has called sendto exactly once, with the
\* whole payload.  No call of a listener makes more than one sendto.
C25_AttemptSendSendsAtMostOnce ==
    /\ Len(dsendtos) <= 1
    /\ Attempted =>
          /\ Classify(dfds) = "empty" =>
                dsendtos = <<>> /\ dexc = "No poll events returned"
          /\ Classify(dfds) = "other" =>
                dsendtos = <<>> /\ dexc = "Socket not available for write"
          /\ Classify(dfds) = "pollout" =>
                /\ dsendtos = <<Payload(delement)>>
                /\ dexc \in {"", "strerror"}
          /\ attempt_send(Classify(dfds),
                          IF dexc = "strerror" THEN "socket.error" ELSE "ok").called
                = (dsendtos # <<>>)
    /\ ~Attempted => dsendtos = <<>>

\* attempt_send has sent although the poll returned two pairs for this
\* socket that are ready for writing.
C25_Witness ==
    /\ dpc = "pending" /\ Len(dsendtos) = 1
    /\ dfds = <<<<"sockfd", "POLLOUT">>, <<"sockfd", "POLLOUT">>>>

\* The forms in which a command designates pin 9.
DesignatesPin9(element) ==
    /\ element.tag = "set_digital_output"
    /\ element.index = "9" \/ element.name \in {"D9", "DIO9", "ON", "SLEEP"}

\* The command gets as far as its pin: it has an address that normalizes
\* and gives only one of index and name.
ReachesPin(element) ==
    /\ Truthy(element.addr) /\ normalize_error(element.addr) = ""
    /\ element.index = "none" \/ element.name = "none"

LowLiterals == {"low", "n", "no", "f", "false", "off", "0"}

HighLiterals == {"high", "y", "yes", "t", "true", "on", "1"}

\* The body of the command: its text without the padding, in lower case.
BodyOf(element) ==
    IF element.body = "none" THEN "" ELSE Lower(Strip(element.body))

\* The command passes every check on its attributes: with a good body it
\* would be sent.
ReachesValue(element) ==
    /\ element.tag = "set_digital_output"
    /\ digital_out_check([element EXCEPT !.body = "high"]).err = ""

C26_HandleErrorKeepsSocket ==
    /\ [](\A m \in Managers : registered[m])
    /\ [][(epc = "error" /\ epc' # epc) =>
             /\ epc' = "poll"
             /\ logged' = [logged EXCEPT ![em] = @ + 1]
             /\ UNCHANGED <<registered, routerVars, listenerVars, chan,
                            arrived, tableVars, sentIds>>]_vars
    /\ [](\A m \in Managers : (epc = "poll" /\ logged[m] > 0) =>
             \A txid \in FrameIds(m) : \A status \in Codes :
                 ENABLED HandleRead(m, txid, status))

\* A status frame of the serial socket is being completed after the serial
\* manager's handle_error logged an exception.
C26_Witness ==
    /\ logged["serial"] > 0
    /\ epc = "invoke" /\ em = "serial" /\ ecb = ncmd

\* ------------------------------------------------- I/O samples (manager.py)
\* The samples processed in one behaviour.
MaxSamples == 6

\* The readings io_sample.parse_is gives for a pin, and the settings the
\* registry can hold.
AnalogValues == {10, 11, 12}

DigitalValues == {0, 1}

Thresholds == {1, 2}

SettingsSet ==
    [filter_analog_duplicates : BOOLEAN, minimum_analog_change : Thresholds,
     filter_digital_duplicates : BOOLEAN]

Readings(key) ==
    IF key = "AD0" THEN AnalogValues
    ELSE IF key \in AnalogKeys THEN {10, 12}
    ELSE DigitalValues

Reading(key, value) == [key |-> key, value |-> value]

\* iodata.iteritems(): the readings of one frame, each pin once, in the
\* order the dictionary gives them.
WellFormed(iodata) ==
    /\ \A i \in 1..Len(iodata) : iodata[i].value \in Readings(iodata[i].key)
    /\ \A i, j \in 1..Len(iodata) : i # j => iodata[i].key # iodata[j].key

IoFrames ==
    LET keys   == AnalogKeys \cup DigitalKeys
        values == AnalogValues \cup DigitalValues
    IN  {iodata \in
            {<<Reading(k, v)>> : k \in keys, v \in values}
            \cup {<<Reading(k[1], v[1]), Reading(k[2], v[2])>> :
                     k \in keys \X keys, v \in values \X values} :
         WellFormed(iodata)}

\* The number of samples processed so far.
RECURSIVE Total(_, _)
Total(log, keys) ==
    IF keys = {} THEN 0
    ELSE LET k == CHOOSE k \in keys : TRUE
         IN  Len(log[k]) + Total(log, keys \ {k})

Abs(x) == IF x < 0 THEN 0 - x ELSE x

\* pubsub.pub.sendMessage(topic, ident=(addr[0], key), value=value)
Message(topic, addr, key, value) ==
    [topic |-> topic, addr |-> addr, key |-> key, value |-> value]

\* What a sample did to the manager: the cache, the messages sent, and the
\* samples seen with whether each was sent.
Seen(st, addr, key, value, sent) ==
    [st.log EXCEPT ![FilterKey(addr, key)] =
        Append(@, [value |-> value, sent |-> sent])]

Publish(st, topic, addr, key, value) ==
    [cache |-> [st.cache EXCEPT ![FilterKey(addr, key)] = value],
     pubs  |-> [st.pubs EXCEPT ![FilterKey(addr, key)] =
                   Append(@, Message(topic, addr, key, value))],
     log   |-> Seen(st, addr, key, value, TRUE)]

Drop(st, addr, key, value) ==
    [st EXCEPT !.log = Seen(st, addr, key, value, FALSE)]

\* _process_analog storing every sample in the cache, the dropped ones too.
process_analogCachesAll(st, addr, key, value) ==
    LET filtered   == settings.filter_analog_duplicates
        filter_key == FilterKey(addr, key)
        difference == settings.minimum_analog_change
        old_value  == st.cache[filter_key]
    IN  IF filtered /\ old_value # NoValue /\ Abs(value - old_value) < difference
        THEN [Drop(st, addr, key, value) EXCEPT !.cache[filter_key] = value]
        ELSE Publish(st, "xbee.analog", addr, key, value)

\* _process_analog (manager.py 170-185)
process_analog(st, addr, key, value) ==
    LET filtered   == settings.filter_analog_duplicates
        filter_key == FilterKey(addr, key)
        difference == settings.minimum_analog_change
        old_value  == st.cache[filter_key]
    IN  IF filtered /\ old_value # NoValue /\ Abs(value - old_value) < difference
        THEN Drop(st, addr, key, value)
        ELSE Publish(st, "xbee.analog", addr, key, value)

\* _process_digital without its last line: what was sent is not stored.
process_digitalForgets(st, addr, key, value) ==
    LET filtered   == settings.filter_digital_duplicates
        filter_key == FilterKey(addr, key)
        old_value  == st.cache[filter_key]
    IN  IF filtered /\ old_value = value
        THEN Drop(st, addr, key, value)
        ELSE [Publish(st, "xbee.digitalIn", addr, key, value)
                 EXCEPT !.cache = st.cache]

\* _process_digital (manager.py 187-203)
process_digital(st, addr, key, value) ==
    LET filtered   == settings.filter_digital_duplicates
        filter_key == FilterKey(addr, key)
        old_value  == st.cache[filter_key]
    IN  IF filtered /\ old_value = value
        THEN Drop(st, addr, key, value)
        ELSE Publish(st, "xbee.digitalIn", addr, key, value)

\* handle_io (manager.py 161-168): each reading of the frame in turn, by the
\* prefix of its key.
RECURSIVE process_io(_, _, _, _)
process_io(st, addr, iodata, i) ==
    IF i > Len(iodata) THEN st
    ELSE LET r == iodata[i]
         IN  process_io(IF r.key \in AnalogKeys
                        THEN process_analog(st, addr, r.key, r.value)
                        ELSE process_digital(st, addr, r.key, r.value),
                        addr, iodata, i + 1)

\* handle_read on a frame of the I/O cluster (manager.py 237-250).
HandleIo(addr, iodata) ==
    /\ epc = "poll"
    /\ registered["serial"]
    /\ Total(samples, FilterKeys) + Len(iodata) <= MaxSamples
    /\ LET st == process_io([cache |-> last_report, pubs |-> published,
                             log |-> samples], addr, iodata, 1)
       IN  /\ last_report' = st.cache
           /\ published' = st.pubs
           /\ samples' = st.log
    /\ UNCHANGED <<topics, mainVars, uutVars, lockVars, rciVars, sockVars,
                   callVars, settings, parseVars, reportVars>>

IoInit ==
    /\ topics = MainTopics /\ InitCommon /\ NewTable(MaxId) /\ NoBatch
    /\ settings \in SettingsSet
    /\ NoFrame
    /\ NoReport

IoNext == \E addr \in IoAddrs, iodata \in IoFrames : HandleIo(addr, iodata)

IoSpec == IoInit /\ [][IoNext]_vars

\* The samples seen for one pin of one device, and the messages sent for it,
\* both in order.
SamplesOf(addr, key) == samples[FilterKey(addr, key)]

MessagesOf(addr, key) == published[FilterKey(addr, key)]

ValuesOf(seq) == [i \in 1..Len(seq) |-> seq[i].value]

\* The index of the last sample before the i-th that was sent, 0 if none.
LastSent(seq, i) ==
    LET sent == {j \in 1..(i - 1) : seq[j].sent}
    IN  IF sent = {} THEN 0 ELSE CHOOSE j \in sent : \A k \in sent : k <= j

\* The messages for the pin are its sent samples, in the order they came,
\* each on the topic and with the ident of the pin, and the cache holds the
\* value of the last one.
SentInOrder(topic, addr, key) ==
    LET seq  == SamplesOf(addr, key)
        last == LastSent(seq, Len(seq) + 1)
        msgs == MessagesOf(addr, key)
    IN  /\ ValuesOf(msgs) = ValuesOf(SelectSeq(seq, LAMBDA r : r.sent))
        /\ \A i \in 1..Len(msgs) :
              msgs[i].topic = topic /\ msgs[i].addr = addr /\ msgs[i].key = key
        /\ last_report[FilterKey(addr, key)]
              = IF last = 0 THEN NoValue ELSE seq[last].value

\* C29: with filter_analog_duplicates on, an analog sample is sent iff no
\* sample of its (address, channel) was sent before or it differs from the
\* last one sent by minimum_analog_change or more; the cache holds the last
\* value sent, not the last seen, so the samples 10, 11, 11, 12, 11, 10 with
\* threshold 2 send 10, 12, 10.  With the filter off every sample is sent.
C29_AnalogFilter ==
    \A addr \in IoAddrs, key \in AnalogKeys :
        LET seq == SamplesOf(addr, key)
        IN  /\ \A i \in 1..Len(seq) :
                  LET last == LastSent(seq, i)
                  IN  seq[i].sent <=>
                         \/ ~settings.filter_analog_duplicates
                         \/ last = 0
                         \/ Abs(seq[i].value - seq[last].value)
                               >= settings.minimum_analog_change
            /\ SentInOrder("xbee.analog", addr, key)
            /\ ( /\ settings.filter_analog_duplicates
                 /\ settings.minimum_analog_change = 2
                 /\ ValuesOf(seq) = <<10, 11, 11, 12, 11, 10>> )
               => ValuesOf(MessagesOf(addr, key)) = <<10, 12, 10>>

\* The drift of do_analog has been seen on AD0 and 10, 12, 10 sent.
C29_Witness ==
    /\ settings.filter_analog_duplicates /\ settings.minimum_analog_change = 2
    /\ \E addr \in IoAddrs :
          /\ ValuesOf(SamplesOf(addr, "AD0")) = <<10, 11, 11, 12, 11, 10>>
          /\ ValuesOf(MessagesOf(addr, "AD0")) = <<10, 12, 10>>

\* C30: with filter_digital_duplicates on, a digital sample is sent iff its
\* value differs from the last value sent for its (address, channel), the
\* first one always; with the filter off every sample is sent.  The messages
\* are the sent samples in the order they arrived.
C30_DigitalFilter ==
    \A addr \in IoAddrs, key \in DigitalKeys :
        LET seq == SamplesOf(addr, key)
        IN  /\ \A i \in 1..Len(seq) :
                  LET last == LastSent(seq, i)
                  IN  seq[i].sent <=>
                         \/ ~settings.filter_digital_duplicates
                         \/ last = 0
                         \/ seq[i].value # seq[last].value
            /\ SentInOrder("xbee.digitalIn", addr, key)

\* The samples of do_digital, 0, 0, 1, have been seen with the filter on and
\* 0, 1 sent, while an analog pin was sampled too.
C30_Witness ==
    /\ settings.filter_digital_duplicates
    /\ \E addr \in IoAddrs :
          /\ ValuesOf(SamplesOf(addr, "DIO0")) = <<0, 0, 1>>
          /\ ValuesOf(MessagesOf(addr, "DIO0")) = <<0, 1>>
          /\ SamplesOf(addr, "AD1") # <<>>

\* ------------------------------------------- I/O frames (io_sample.parse_is)
\* struct.unpack("!H", s)[0] and struct.pack("!H", w): two bytes, the high
\* one first.
Word(hi, lo) == hi * 256 + lo

PackWord(w) == <<w \div 256, w % 256>>

\* data[n:]
From(s, n) == SubSeq(s, n + 1, Len(s))

\* struct.unpack on a string shorter than its format raises struct.error,
\* which leaves parse_is without a return value.
StructError == [exc |-> "struct.error", retdir |-> <<>>]

\* The loop of lines 47-57 over the digital mask and the digital word.
RECURSIVE DigitalSamples(_, _, _)
DigitalSamples(datamask, datavals, currentDI) ==
    IF datamask = 0 THEN <<>>
    ELSE (IF datamask % 2 = 1
          THEN <<Reading("DIO" \o Dec(currentDI), datavals % 2)>>
          ELSE <<>>)
         \o DigitalSamples(datamask \div 2, datavals \div 2, currentDI + 1)

\* The analog loop reading the same two bytes for every channel: data is not
\* advanced.
RECURSIVE AnalogSamplesSameWord(_, _, _)
AnalogSamplesSameWord(analogmask, rest, currentAI) ==
    IF analogmask = 0 THEN [exc |-> "", retdir |-> <<>>]
    ELSE IF analogmask % 2 = 0
    THEN AnalogSamplesSameWord(analogmask \div 2, rest, currentAI + 1)
    ELSE IF Len(rest) < 2 THEN StructError
    ELSE LET more == AnalogSamplesSameWord(analogmask \div 2, rest,
                                           currentAI + 1)
         IN  IF more.exc # "" THEN StructError
             ELSE [exc    |-> "",
                   retdir |-> <<Reading("AD" \o Dec(currentAI),
                                        Word(rest[1], rest[2]))>>
                              \o more.retdir]

\* The loop of lines 59-68 over the analog mask: each set bit takes the next
\* two bytes.
RECURSIVE AnalogSamples(_, _, _)
AnalogSamples(analogmask, rest, currentAI) ==
    IF analogmask = 0 THEN [exc |-> "", retdir |-> <<>>]
    ELSE IF analogmask % 2 = 0
    THEN AnalogSamples(analogmask \div 2, rest, currentAI + 1)
    ELSE IF Len(rest) < 2 THEN StructError
    ELSE LET more == AnalogSamples(analogmask \div 2, From(rest, 2),
                                   currentAI + 1)
         IN  IF more.exc # "" THEN StructError
             ELSE [exc    |-> "",
                   retdir |-> <<Reading("AD" \o Dec(currentAI),
                                        Word(rest[1], rest[2]))>>
                              \o more.retdir]

\* parse_is (io_sample.py 22-70).  retdir, a dictionary, is the readings in
\* the order they were stored, each key once; True and False are 1 and 0.
parse_is(buf) ==
    LET even == Len(buf) % 2 = 0
        hlen == IF even THEN 4 ELSE 3
    IN  IF Len(buf) < hlen THEN StructError
        ELSE
        LET mask       == Word(buf[2], buf[3])
            datamask   == IF even THEN mask ELSE mask % 512
            analogmask == IF even THEN buf[4] ELSE mask \div 512
            body       == From(buf, hlen)
        IN  IF datamask # 0 /\ Len(body) < 2 THEN StructError
            ELSE
            LET datavals == IF datamask # 0 THEN Word(body[1], body[2]) ELSE 0
                rest     == IF datamask # 0 THEN From(body, 2) ELSE body
                analog   == AnalogSamples(analogmask, rest, 0)
            IN  IF analog.exc # "" THEN StructError
                ELSE [exc    |-> "",
                      retdir |-> DigitalSamples(datamask, datavals, 0)
                                 \o analog.retdir]

\* The frames a series 2 device sends: the first byte, the two masks, the
\* digital word when a digital pin is enabled, one word per analog pin.
RECURSIVE BitCount(_)
BitCount(mask) == IF mask = 0 THEN 0 ELSE (mask % 2) + BitCount(mask \div 2)

RECURSIVE PackWords(_, _)
PackWords(words, n) ==
    IF n = 0 THEN <<>> ELSE PackWords(words, n - 1) \o PackWord(words[n])

Frame(datamask, analogmask, datavals, avals) ==
    <<1>> \o PackWord(datamask) \o <<analogmask>>
          \o (IF datamask # 0 THEN PackWord(datavals) ELSE <<>>)
          \o PackWords(avals, BitCount(analogmask))

\* The frame of test_parse_is: masks FFF0 and 0F, every word FFFF.
TestFrame == Frame(65520, 15, 65535, <<65535, 65535, 65535, 65535>>)

DigitalMasks == {0, 1, 65520}

AnalogMasks == {0, 1, 3, 15}

DigitalWords == {0, 1, 65535}

AnalogWords == {10, 12}

Frames(dmasks, amasks) ==
    {Frame(datamask, analogmask, datavals, avals) :
        datamask \in dmasks, analogmask \in amasks,
        datavals \in DigitalWords, avals \in [1..4 -> AnalogWords]}

\* What recvfrom can return for a frame: all of it, or its first bytes only.
Prefixes(f) == {SubSeq(f, 1, n) : n \in 0..Len(f)}

Buffers ==
    UNION {Prefixes(f) : f \in Frames(DigitalMasks, AnalogMasks) \cup {TestFrame}}

\* The same for a device that has the pins of the filter enabled at most.
DeviceBuffers == UNION {Prefixes(f) : f \in Frames({0, 1}, {0, 1, 3})}

\* A call of parse_is on the bytes received, outside the manager.
ParseIs ==
    /\ parsed = NotParsed
    /\ parsed' = parse_is(data)
    /\ UNCHANGED <<topics, mainVars, uutVars, lockVars, rciVars, sockVars,
                   callVars, ioVars, data, reportVars>>

\* handle_read on a frame of the I/O cluster and handle_io (manager.py
\* 237-250, 161-168): parse_is, then each reading in turn.  An exception
\* leaves handle_read and asyncore calls handle_error.
HandleIoData(addr) ==
    /\ epc = "poll"
    /\ registered["serial"]
    /\ parsed = NotParsed
    /\ data \in DeviceBuffers
    /\ LET iodata == parse_is(data)
       IN  /\ parsed' = iodata
           /\ IF iodata.exc # ""
              THEN /\ logged["serial"] < MaxErrors
                   /\ epc' = "error" /\ em' = "serial"
                   /\ UNCHANGED <<last_report, published, samples>>
              ELSE /\ Total(samples, FilterKeys) + Len(iodata.retdir)
                         <= MaxSamples
                   /\ LET st == process_io([cache |-> last_report,
                                            pubs |-> published,
                                            log |-> samples],
                                           addr, iodata.retdir, 1)
                      IN  /\ last_report' = st.cache
                          /\ published' = st.pubs
                          /\ samples' = st.log
                   /\ UNCHANGED <<epc, em>>
    /\ UNCHANGED <<topics, routerVars, listenerVars, chan, arrived,
                   tableVars, sentIds, threads, eid, estatus, ecb, histVars,
                   uutVars, lockVars, rciVars, sockVars, callVars, settings,
                   data, reportVars>>

\* The next frame is the one before, received again with its first n bytes
\* only.
Recvfrom(n) ==
    /\ epc = "poll"
    /\ parsed # NotParsed
    /\ data \in DeviceBuffers
    /\ n < Len(data)
    /\ data' = SubSeq(data, 1, n)
    /\ parsed' = NotParsed
    /\ UNCHANGED <<topics, mainVars, uutVars, lockVars, rciVars, sockVars,
                   callVars, ioVars, reportVars>>

ParseInit ==
    /\ topics = MainTopics /\ InitCommon /\ NewTable(MaxId) /\ NoBatch
    /\ settings = DefaultSettings
    /\ data \in Buffers
    /\ parsed = NotParsed
    /\ NoReport

ParseNext ==
    \/ ParseIs
    \/ \E addr \in IoAddrs : HandleIoData(addr)
    \/ \E n \in 0..Len(data) : Recvfrom(n)
    \/ HandleError

ParseSpec == ParseInit /\ [][ParseNext]_vars

\* ------------------------------------------------------ properties of parse_is
\* Bit n of a mask or word.
Bit(x, n) == (x \div (2 ^ n)) % 2

\* The value stored under a key of the dictionary parse_is returned.
ValueAt(retdir, key) ==
    LET i == CHOOSE i \in 1..Len(retdir) : retdir[i].key = key
    IN  retdir[i].value

KeysOf(retdir) == {retdir[i].key : i \in 1..Len(retdir)}

\* The length the first byte, the masks and the words they announce take in
\* the format of a series 2 device; 4 while the masks are not all there.
Required(buf) ==
    IF Len(buf) < 4 THEN 4
    ELSE 4 + (IF Word(buf[2], buf[3]) # 0 THEN 2 ELSE 0) + 2 * BitCount(buf[4])

\* C31: for a buffer of even length that holds what its masks announce,
\* parse_is returns one "DIO{n}" entry for each set bit n of the 16-bit
\* digital mask, its value bit n of the word after the masks, one "AD{n}"
\* entry for each set bit n of the 8-bit analog mask, the analog words being
\* taken in ascending n, and no other key; the masks FFF0 and 0F give
\* AD0..AD3 and DIO4..DIO15.
C31_ParseIsEvenFrame ==
    (parsed.exc = "" /\ Len(data) % 2 = 0 /\ Len(data) >= Required(data)) =>
        LET datamask   == Word(data[2], data[3])
            analogmask == data[4]
            first      == IF datamask # 0 THEN 7 ELSE 5
            below(n)   == Cardinality({j \in 0..(n - 1) : Bit(analogmask, j) = 1})
            retdir     == parsed.retdir
        IN  /\ Cardinality(KeysOf(retdir)) = Len(retdir)
            /\ KeysOf(retdir) =
                  {"DIO" \o Dec(n) : n \in {j \in 0..15 : Bit(datamask, j) = 1}}
                  \cup
                  {"AD" \o Dec(n) : n \in {j \in 0..7 : Bit(analogmask, j) = 1}}
            /\ \A n \in 0..15 :
                  Bit(datamask, n) = 1 =>
                     ValueAt(retdir, "DIO" \o Dec(n))
                        = Bit(Word(data[5], data[6]), n)
            /\ \A n \in 0..7 :
                  Bit(analogmask, n) = 1 =>
                     ValueAt(retdir, "AD" \o Dec(n))
                        = Word(data[first + 2 * below(n)],
                               data[first + 2 * below(n) + 1])
            /\ (datamask = 65520 /\ analogmask = 15) =>
                  KeysOf(retdir) =
                     {"AD0", "AD1", "AD2", "AD3", "DIO4", "DIO5", "DIO6",
                      "DIO7", "DIO8", "DIO9", "DIO10", "DIO11", "DIO12",
                      "DIO13", "DIO14", "DIO15"}

\* parse_is has returned sixteen readings for a frame with the masks FFF0
\* and 0F whose four analog words are not all the same.
C31_Witness ==
    /\ parsed.exc = ""
    /\ Len(data) = 14
    /\ Word(data[2], data[3]) = 65520 /\ data[4] = 15
    /\ Len(parsed.retdir) = 16
    /\ ValueAt(parsed.retdir, "AD0") # ValueAt(parsed.retdir, "AD3")

\* C37: a frame whose buffer is shorter than its header and masks require
\* fails closed: parse_is raises and returns no reading, and handle_io
\* publishes nothing and leaves _last_report as it was.
C37_TruncatedFrameFailsClosed ==
    [][(parsed = NotParsed /\ parsed' # NotParsed
          /\ Len(data) < Required(data))
          => /\ parsed' = StructError
             /\ published' = published
             /\ last_report' = last_report]_vars

\* ------------------------------------- DeviceCloudReporter (device_cloud.py)
\* _RETRY_COUNT
RETRY_COUNT == 3

\* _MAX_QUEUE_SIZE and _MAX_PER_UPLOAD, attributes set in __init__ (5000 and
\* 249) that the tests lower; MaxPuts items are published in one behaviour.
MAX_QUEUE_SIZE == 2

MAX_PER_UPLOAD == 2

MaxPuts == 4

\* What idigidata.send_to_idigi returns: (success, code, errmsg).
Answers ==
    {[success |-> TRUE, errmsg |-> "Success"],
     [success |-> FALSE, errmsg |-> "Request throttled. For test"],
     [success |-> FALSE, errmsg |-> "No route to host"]}

\* errmsg.startswith("Request throttled.")
Throttled(errmsg) ==
    errmsg \in {"Request throttled.", "Request throttled. For test"}

notReport == <<topics, mainVars, uutVars, lockVars, rciVars, sockVars,
               callVars, ioVars, parseVars>>

\* __my_listener, line 179: with self._work_lock (entry).
ListenerCall ==
    /\ lpc = "idle"
    /\ nput < MaxPuts
    /\ work_lock = "free"
    /\ work_lock' = "listener"
    /\ nput' = nput + 1
    /\ lpc' = "check"
    /\ UNCHANGED <<notReport, work, work_event, upc, upload_body,
                   loop_count, answers>>

\* line 180: if len(self._work) >= self._MAX_QUEUE_SIZE
ListenerCheck ==
    /\ lpc = "check"
    /\ lpc' = IF Len(work) >= MAX_QUEUE_SIZE THEN "purge" ELSE "append"
    /\ UNCHANGED <<notReport, work, work_lock, work_event, nput, upc,
                   upload_body, loop_count, answers>>

\* _purge_work: self._work.clear()
ListenerPurge ==
    /\ lpc = "purge"
    /\ work' = <<>>
    /\ lpc' = "append"
    /\ UNCHANGED <<notReport, work_lock, work_event, nput, upc, upload_body,
                   loop_count, answers>>

\* line 183: self._work.append(...); the item is known by its number.
ListenerAppend ==
    /\ lpc = "append"
    /\ work' = Append(work, nput)
    /\ lpc' = "set"
    /\ UNCHANGED <<notReport, work_lock, work_event, nput, upc, upload_body,
                   loop_count, answers>>

\* line 184 and the end of the with block: the event is set, the lock freed.
ListenerSet ==
    /\ lpc = "set"
    /\ work_event' = TRUE
    /\ work_lock' = "free"
    /\ lpc' = "idle"
    /\ UNCHANGED <<notReport, work, nput, upc, upload_body, loop_count,
                   answers>>

\* __thread_fn, lines 191-193: the top of the loop.
ThreadTop ==
    /\ upc = "top"
    /\ upc' = IF Len(work) = 0 THEN "wait" ELSE "awake"
    /\ UNCHANGED <<notReport, work, work_lock, work_event, lpc, nput,
                   upload_body, loop_count, answers>>

\* line 193: self._work_event.wait() returns once the event is set.
ThreadWait ==
    /\ upc = "wait"
    /\ work_event
    /\ upc' = "awake"
    /\ UNCHANGED <<notReport, work, work_lock, work_event, lpc, nput,
                   upload_body, loop_count, answers>>

\* lines 201-204, after the sleep against throttling: _publish_stream, or
\* the warning that the data is gone.
ThreadAwake ==
    /\ upc = "awake"
    /\ IF Len(work) = 0
       THEN upc' = "clear" /\ UNCHANGED upload_body
       ELSE upc' = "test" /\ upload_body' = <<>>
    /\ UNCHANGED <<notReport, work, work_lock, work_event, lpc, nput,
                   loop_count, answers>>

\* _build_body, line 226: the condition of the while loop; when it is false
\* the body is complete and _upload starts (loop_count = 0).
BuildTest ==
    /\ upc = "test"
    /\ IF Len(work) # 0 /\ Len(upload_body) < MAX_PER_UPLOAD
       THEN upc' = "pop" /\ UNCHANGED <<loop_count, answers>>
       ELSE upc' = "send" /\ loop_count' = 0 /\ answers' = <<>>
    /\ UNCHANGED <<notReport, work, work_lock, work_event, lpc, nput,
                   upload_body>>

\* line 228: self._work.popleft(), which raises IndexError on an empty deque;
\* nothing in __thread_fn catches it and the thread ends.
BuildPop ==
    /\ upc = "pop"
    /\ IF work = <<>>
       THEN upc' = "dead" /\ UNCHANGED <<work, upload_body>>
       ELSE /\ upload_body' = Append(upload_body, Head(work))
            /\ work' = Tail(work)
            /\ upc' = "test"
    /\ UNCHANGED <<notReport, work_lock, work_event, lpc, nput, loop_count,
                   answers>>

\* _upload, lines 255-275: one pass of its loop.
UploadSend(answer) ==
    /\ upc = "send"
    /\ answers' = Append(answers, answer)
    /\ IF answer.success
       THEN upc' = "clear" /\ UNCHANGED loop_count
       ELSE IF ~Throttled(answer.errmsg)
       THEN upc' = "clear" /\ UNCHANGED loop_count
       ELSE IF loop_count >= RETRY_COUNT
       THEN upc' = "clear" /\ UNCHANGED loop_count
       ELSE loop_count' = loop_count + 1 /\ UNCHANGED upc
    /\ UNCHANGED <<notReport, work, work_lock, work_event, lpc, nput,
                   upload_body>>

\* __thread_fn, lines 206-209: under the lock, the event is cleared when the
\* deque is empty; then the loop starts over.
ThreadClear ==
    /\ upc = "clear"
    /\ work_lock = "free"
    /\ work_event' = IF Len(work) = 0 THEN FALSE ELSE work_event
    /\ upc' = "top"
    /\ UNCHANGED <<notReport, work, work_lock, lpc, nput, upload_body,
                   loop_count, answers>>

ReportInit ==
    /\ topics = MainTopics /\ InitCommon /\ NewTable(MaxId) /\ NoBatch
    /\ settings = DefaultSettings
    /\ NoFrame
    /\ NoReport

ReportNext ==
    \/ ListenerCall
    \/ ListenerCheck
    \/ ListenerPurge
    \/ ListenerAppend
    \/ ListenerSet
    \/ ThreadTop
    \/ ThreadWait
    \/ ThreadAwake
    \/ BuildTest
    \/ BuildPop
    \/ \E answer \in Answers : UploadSend(answer)
    \/ ThreadClear

ReportSpec == ReportInit /\ [][ReportNext]_vars

\* -------------------------------------------- properties of the reporter
\* C39: for one body, send_to_idigi is called at most _RETRY_COUNT times
\* when every call is answered "Request throttled.", and once when the first
\* call succeeds or fails with another error.
C39_UploadTriesAtMostRetryCount ==
    /\ (\A i \in 1..Len(answers) : Throttled(answers[i].errmsg))
          => Len(answers) <= RETRY_COUNT
    /\ (answers # <<>> /\ ~Throttled(answers[1].errmsg))
          => (Len(answers) = 1 /\ upc # "send")

\* C40: whatever the interleaving of __my_listener with the upload thread,
\* _build_body never calls popleft on an empty deque, the upload thread
\* never ends, and the deque never holds more than _MAX_QUEUE_SIZE items.
C40_BuildBodyNeverPopsEmpty ==
    /\ ~(upc = "pop" /\ work = <<>>)
    /\ upc # "dead"
    /\ Len(work) <= MAX_QUEUE_SIZE

\* ------------------------------------------------- the table's representation
\* The listeners handed to add_callback so far.
Handlers == 1..MaxCalls

\* C32: in every reachable state of a TxStatusCallbacks table, whatever calls
\* of add_callback and remove_callback were made and whether they returned or
\* raised, the base index is in 1..max_id, slot 0 holds nothing, and each
\* slot 1..max_id is empty or holds one listener.
C32_TableRepresentation ==
    /\ uut_baseindex \in 1..uut_max_id
    /\ DOMAIN uut_callbacks = 0..uut_max_id
    /\ uut_callbacks[0] = None
    /\ \A i \in Slots : uut_callbacks[i] = None \/ uut_callbacks[i] \in Handlers

\* A remove_callback has just raised IndexError on the largest table, after
\* enough successful calls for the base index to have wrapped back to 1, one
\* slot being occupied.
C32_Witness ==
    /\ uut_max_id = MaxSlots
    /\ ret.op = "remove" /\ ret.exc = "IndexError"
    /\ Len(calls) >= MaxSlots + 2
    /\ uut_baseindex = 1
    /\ Cardinality(Occupied(uut_callbacks)) = 1

\* ------------------------------------------- a Deferred ahead of its Pending
\* The event loop called the completion of the current command between
\* sendto and the listener's put: process_command is in its loop, the
\* Deferred has been put and the Pending, put after it, is still queued.
DeferredAhead ==
    /\ rpc = "loop"
    /\ arrived[ncmd]["Deferred"] = 1
    /\ chan[ncmd] # <<>>
    /\ chan[ncmd][Len(chan[ncmd])].kind = "Pending"

\* C33: when the Deferred of a send is queued before its Pending,
\* process_command never blocks on the queue (no wait, no timeout is
\* possible while the pair is being consumed), the pair leaves the counter
\* at 0 with one reply appended, none of them command.timeout, and the
\* command then returns that single reply.
C33_DeferredBeforePending ==
    /\ [](DeferredAhead
            => /\ waited = 0 /\ ~timedout
               /\ deferred <= 0
               /\ ~ENABLED Expire /\ ~ENABLED Timeout)
    /\ [][(DeferredAhead /\ ~DeferredAhead')
            => /\ rpc' = "loop" /\ chan'[ncmd] = <<>> /\ deferred' = 0
               /\ Len(resp') = 1
               /\ resp'[1].err # "command.timeout"]_vars
    /\ [][(rpc = "loop" /\ QueueEmpty /\ deferred = 0 /\ rpc' # rpc)
            => /\ rpc' = "returned" /\ resp' = resp /\ ~timedout']_vars

\* process_command has taken the Deferred of a send from the queue and
\* appended its reply while the Pending of that send, put after it, is still
\* queued: the counter is below zero.
C33_Witness ==
    /\ DeferredAhead
    /\ tag \in ManagerTags
    /\ chan[ncmd] = <<ResponsePending>>
    /\ deferred = 0 - 1
    /\ Len(resp) = 1

\* ------------------------------------------------------ transmission-id reuse
\* The id the current command was given was used by an earlier transmission
\* the socket accepted, and the current command has not sent yet: a status
\* frame carrying that id now can only be one for the earlier transmission.
StaleFor ==
    /\ rpc = "send"
    /\ callbacks[lm][ltxid] = ncmd
    /\ ltxid \in sentIds[lm]

\* handle_tx_status holds the current command's completion, looked up for
\* such a frame.
StaleInHand ==
    /\ rpc = "send"
    /\ epc \in {"remove", "invoke"}
    /\ ecb = ncmd /\ em = lm /\ eid = ltxid

\* C34: nothing guards the reuse of a transmission id.  A status frame that
\* carries id k and is processed after k was released and given to a later
\* command is looked up like any other: the lookup yields whatever
\* completion the slot holds, the slot is released and the later command's
\* channel gets DeferredResponse(status_callback(status)), a value that
\* depends on the frame's status alone.
C34_StaleFrameCompletesLaterCommand ==
    /\ [](StaleFor /\ epc = "poll" /\ registered[lm]
            => \A status \in Statuses(lm) :
                  ENABLED (HandleRead(lm, ltxid, status) /\ epc' = "remove"))
    /\ [][(epc = "poll" /\ epc' = "remove")
            => /\ ecb' = callbacks[em'][eid']
               /\ ecb' # None]_vars
    /\ [][(StaleInHand /\ epc = "remove" /\ epc' # epc)
            => /\ epc' = "invoke"
               /\ callbacks'[em][eid] = None]_vars
    /\ [][(StaleInHand /\ epc = "invoke" /\ epc' # epc)
            => Put(ncmd, DeferredResponse(status_callback(em, estatus)))]_vars

\* The second command has not sent yet and its channel already holds a
\* Deferred: the frame of the first command's transmission released the id
\* the second command was given and called its completion.
C34_Witness ==
    /\ ncmd = 2
    /\ rpc = "send"
    /\ ltxid \in sentIds[lm]
    /\ epc = "poll"
    /\ callbacks[lm][ltxid] = None
    /\ Len(chan[ncmd]) = 1 /\ chan[ncmd][1].kind = "Deferred"

\* ------------------------------------------------------- one channel a command
\* The children of the aggregate that are replies taken from the queue: all
\* but command.unknown and command.timeout, which process_command makes.
Taken == SelectSeq(resp, LAMBDA r : r.err \notin DOMAIN RciErrors)

\* C35: each process_command has a queue of its own.  The queue of a command
\* that is not being processed holds nothing that could be read; the replies
\* in the aggregate of the current command are exactly the values put on its
\* own queue; and a value put for a command that has returned (the Deferred
\* of a send that timed out) changes neither the current command's queue nor
\* its aggregate.
C35_ChannelsAreSeparate ==
    /\ [](\A c \in Cmds : c # ncmd => chan[c] = <<>>)
    /\ [](ncmd > 0 =>
            Len(Taken) + Queued(ncmd, "Imm") + Queued(ncmd, "Deferred")
               = arrived[ncmd]["Imm"] + arrived[ncmd]["Deferred"])
    /\ [][\A c \in Cmds :
            arrived'[c]["Late"] > arrived[c]["Late"]
               => /\ chan' = chan /\ resp' = resp /\ deferred' = deferred
                  /\ \A d \in Cmds \ {c} : arrived'[d] = arrived[d]]_vars

\* The first command timed out and its Deferred came while the second was
\* being processed; the second has returned with its single reply.
C35_Witness ==
    /\ ncmd = 2 /\ rpc = "returned"
    /\ arrived[1]["Pending"] = 1 /\ arrived[1]["Late"] = 1
    /\ Len(resp) = 1 /\ Len(Taken) = 1
    /\ ~timedout

\* ------------------------------------------------- process_command terminates
\* The steps of the thread that called process_command: the listeners, which
\* sendMessage calls one after the other, and the loop, in which a get()
\* blocked on the empty queue expires after BLOCKING_LIMIT.  The thread
\* keeps running; the threads that put deferred replies and the caller's
\* next command are under no obligation.
RouterThread ==
    \/ EchoListener
    \/ DelayedEchoStart
    \/ DelayedEchoPending
    \/ PublishReturns
    \/ Pop
    \/ Expire
    \/ Timeout
    \/ Return

\* The commands of the debug build: "echo", which the debug listeners
\* answer, and one nobody subscribed to.
DebugTags == {"echo", "test"}

FairNext ==
    \/ \E t \in DebugTags : StartCommand(t)
    \/ RouterThread
    \/ \E c \in Cmds : EchoLater(c)

FairRouterSpec == RouterInit /\ [][FairNext]_vars /\ WF_vars(RouterThread)

\* process_command is running.
Processing == rpc \notin {"idle", "returned"}

\* C36: process_command returns, whatever the handlers put on the queue and
\* whenever they do: a call that has started eventually returns, and it
\* returns either Complete (queue empty, counter not positive, no wait
\* expired) or TimedOut (a get() waited BLOCKING_LIMIT on the empty queue
\* with a deferral outstanding).
C36_ProcessCommandReturns ==
    /\ Processing ~> (rpc = "returned")
    /\ [][(Processing /\ rpc' = "returned")
            => /\ QueueEmpty'
               /\ \/ ~timedout' /\ ~(deferred' > 0)
                  \/ timedout' /\ deferred' > 0 /\ waited' = BLOCKING_LIMIT]_vars

\* Both ends: the second command has returned Complete after the first one,
\* whose delayed reply never came in time, returned TimedOut and the late
\* reply was put afterwards.
C36_Witness ==
    /\ ncmd = 2 /\ rpc = "returned"
    /\ ~timedout /\ deferred = 0 /\ Len(resp) >= 1
    /\ arrived[1]["Pending"] >= 1 /\ arrived[1]["Late"] >= 1

\* -------------------------------------------------- lookup, then release
\* C38: handle_tx_status releases the slot of the completion it looked up.
\* An add_callback that runs between the lookup of id k and its release
\* never has the completion it stored erased by that release: when the
\* release runs, slot k holds the completion in hand, or nothing.
C38_ReleaseErasesOnlyLookedUp ==
    [][(epc = "remove" /\ epc' = "invoke")
          => callbacks[em][eid] \in {ecb, None}]_vars

====
